---- MODULE Spec2Model ----
(***************************************************************************)
(* AIGenerator (backend/ai_generator.py): the multi-round tool-calling     *)
(* generation loop.  One query is followed from generate_response to its   *)
(* end (a returned string or a propagated exception).  The language model  *)
(* and the tool manager are the environment: every model call may return   *)
(* any response shape or raise, every tool execution may return or raise.  *)
(*                                                                         *)
(* Python values are encoded as follows.  None is NoneVal; a str is        *)
(* Str(s); a list is List(seq); a dict is a record whose DOMAIN is the set *)
(* of its keys, so an optional key ("tools", "is_error") is a field that   *)
(* is present or absent; an object is a record of its attributes, so       *)
(* hasattr(o, "a") is "a" \in DOMAIN o.                                    *)
(***************************************************************************)
EXTENDS Integers, Sequences, FiniteSets, TLC

\* ---------------------------------------------------------------- bounds
\* largest max_tool_rounds an engine is constructed with
MaxRounds == 2
\* largest number of content blocks the model emits during one query, over
\* all of its responses
MaxBlocks == 4

\* registry operations looked at in one run of the registry
MaxRegOps == 5

\* matches one content search may return
MaxResults == 3

\* top-level queries started on one orchestrator
MaxQueries == 2

\* ------------------------------------------------------- python encoding
NoneVal == [none |-> TRUE]
Str(s) == [str |-> s]
List(l) == [list |-> l]

IsNone(v) == "none" \in DOMAIN v
IsStr(v) == "str" \in DOMAIN v
IsList(v) == "list" \in DOMAIN v

\* Python truthiness of None, str, list and plain objects
Truthy(v) ==
    IF IsNone(v) THEN FALSE
    ELSE IF IsStr(v) THEN v.str # ""
    ELSE IF IsList(v) THEN Len(v.list) > 0
    ELSE TRUE

HasAttr(o, a) == a \in DOMAIN o

\* {**a, **b}: the keys of b override those of a
Merge(a, b) == [k \in DOMAIN a \cup DOMAIN b |-> IF k \in DOMAIN b THEN b[k] ELSE a[k]]

\* ------------------------------------------------------ program constants
SYSTEM_PROMPT == "SYSTEM_PROMPT"
ModelName == "test_model"
SynthesisPrompt == "Please provide a comprehensive answer based on the search results you found above."
NoResponseGenerated == "No response generated"
ToolExecutionFailed == "Tool execution failed. Please try again."
OnlyToolUseFallback == "I was able to search for information but encountered an issue generating the final response. Please try rephrasing your question."
EmptyContentFallback == "I encountered an issue generating a response. Please try rephrasing your question."
ToolChoiceAuto == [type |-> "auto"]

\* self.base_params built by __init__
BaseParams == [model |-> ModelName, temperature |-> 0, max_tokens |-> 800]

\* ------------------------------------------------------------ environment
Queries == {"What is AI?"}
Histories == {NoneVal, Str(""), Str("User: Hello")}
ToolDefs == <<"search_course_content", "get_course_outline">>
ToolsInputs == {NoneVal, List(<<>>), List(ToolDefs)}
ToolManagerObj == [obj |-> "tool_manager"]
ToolManagers == {NoneVal, ToolManagerObj}
ToolName == "search_course_content"
ErrorDetails == {"timeout"}
ToolOutput == "Tool result"

Kinds == {"text", "tool_use"}
StopReasons == {"end_turn", "tool_use"}
\* the block kinds of a response of at most n blocks
Shapes(n) == UNION {[1..m -> Kinds] : m \in 0..n}

\* the p-th content block of the c-th model response, of kind k
MkBlock(k, c, p) ==
    IF k = "text"
    THEN [type |-> "text", text |-> "text" \o ToString(c) \o "." \o ToString(p)]
    ELSE [type |-> "tool_use",
          id |-> "toolu_" \o ToString(c) \o "_" \o ToString(p),
          name |-> ToolName,
          input |-> [query |-> "q"]]

\* the response the model gives to its c-th call: a stop reason and blocks
MkResponse(sr, shape, c) ==
    [stop_reason |-> sr, content |-> [p \in 1..Len(shape) |-> MkBlock(shape[p], c, p)]]

\* ------------------------------------------------------------------ state
VARIABLES
    pc,                   \* position of the query in the code
    max_tool_rounds,      \* self.max_tool_rounds
    query, conversation_history, tools, tool_manager,   \* arguments
    api_params,           \* generate_response's api_params / base_params
    messages,             \* _handle_sequential_tool_execution's messages
    current_response,     \* the latest model response
    round_count,          \* the round counter
    tool_results,         \* _execute_tool_round's tool_results
    idx,                  \* position of _execute_tool_round's loop
    final_messages,       \* the finalization call's messages
    result,               \* the returned string, or the raised exception
    calls,                \* log: every model call, with its parameters
    replies,              \* log: what every model call returned or raised
    execs,                \* log: every tool_manager.execute_tool call
    batches,              \* log: the round counter at the start of every batch
    emitted,              \* number of content blocks the model has emitted
    reg_tools,            \* ToolManager.tools: the registered tools, in registration order
    last_sources,         \* every tool's last-results buffer
    batch,                \* number of tool batches started on the registry
    batch_execs,          \* executions of the current batch
    reg_ops,              \* log: every registry operation, with what it returned
    t_pc,                 \* position of one Tool.execute call
    t_call,               \* the tool called and its arguments
    t_title,              \* the course title the name was resolved to
    t_results,            \* what the content search returned
    t_store_ops,          \* log: the operations issued to the vector index
    t_output,             \* the string returned by execute
    t_sources,            \* the tool's last-results buffer
    orch,                 \* the orchestrator: its callers' positions and answers
    engine,               \* the AIGenerator object shared by several queries
    sh                    \* the queries on the shared object: local variables and logs

vars == <<pc, max_tool_rounds, query, conversation_history, tools, tool_manager,
          api_params, messages, current_response, round_count, tool_results,
          idx, final_messages, result, calls, replies, execs,
          batches, emitted,
          reg_tools, last_sources, batch, batch_execs, reg_ops,
          t_pc, t_call, t_title, t_results, t_store_ops, t_output, t_sources,
          orch, engine, sh>>

engine_vars == <<pc, max_tool_rounds, query, conversation_history, tools,
                 tool_manager, api_params, messages, current_response,
                 round_count, tool_results, idx, final_messages, result, calls,
                 replies, execs, batches, emitted>>

reg_vars == <<reg_tools, last_sources, batch, batch_execs, reg_ops>>

tool_vars == <<t_pc, t_call, t_title, t_results, t_store_ops, t_output, t_sources>>

shared_vars == <<engine, sh>>

\* what the engine, the registry and a tool call each leave alone
outside_engine == <<reg_vars, tool_vars, orch, shared_vars>>
outside_registry == <<engine_vars, tool_vars, orch, shared_vars>>
outside_tool == <<engine_vars, reg_vars, orch, shared_vars>>
outside_orch == <<engine_vars, tool_vars, batch, batch_execs, shared_vars>>
outside_shared == <<engine_vars, reg_vars, tool_vars, orch>>

\* the threads that call the orchestrator
Callers == {1, 2}

\* the tool objects of the application: two content search tools and one
\* outline tool
ToolInstances ==
    {[name |-> "search_course_content", inst |-> 1],
     [name |-> "search_course_content", inst |-> 2],
     [name |-> "get_course_outline", inst |-> 1]}

args == <<query, conversation_history, tools, tool_manager>>

NoResponse == [stop_reason |-> "none", content |-> <<>>]

Init ==
    /\ pc = "idle"
    /\ max_tool_rounds \in 0..MaxRounds
    /\ query = ""
    /\ conversation_history = NoneVal
    /\ tools = NoneVal
    /\ tool_manager = NoneVal
    /\ api_params = BaseParams
    /\ messages = <<>>
    /\ current_response = NoResponse
    /\ round_count = 0
    /\ tool_results = <<>>
    /\ idx = 0
    /\ final_messages = <<>>
    /\ result = ""
    /\ calls = <<>>
    /\ replies = <<>>
    /\ execs = <<>>
    /\ batches = <<>>
    /\ emitted = 0
    /\ reg_tools = <<>>
    /\ last_sources = [t \in ToolInstances |-> <<>>]
    /\ batch = 0
    /\ batch_execs = 0
    /\ reg_ops = <<>>
    /\ t_pc = "idle"
    /\ t_call = NoneVal
    /\ t_title = NoneVal
    /\ t_results = <<>>
    /\ t_store_ops = <<>>
    /\ t_output = NoneVal
    /\ t_sources = <<>>
    /\ orch = [constructed |-> FALSE,
               started |-> 0,
               pc |-> [c \in Callers |-> "idle"],
               query |-> [c \in Callers |-> 0],
               ran |-> [c \in Callers |-> 0],
               got |-> [c \in Callers |-> <<>>],
               answers |-> <<>>]
    /\ engine = [base_params |-> BaseParams, max_tool_rounds |-> MaxRounds]
    /\ sh = [frames |-> [c \in Callers |->
                [pc |-> "idle", id |-> 0, api_params |-> <<>>, messages |-> <<>>,
                 current_response |-> NoResponse, round_count |-> 0,
                 final_messages |-> <<>>, result |-> "",
                 calls |-> <<>>, batches |-> <<>>]],
             started |-> 0]

\* ------------------------------------------------------- pure functions
\* mutant: the history is dropped
SystemContentDropsHistory(h) == SYSTEM_PROMPT

\* generate_response: the system content
SystemContent(h) ==
    IF Truthy(h)
    THEN SYSTEM_PROMPT \o "\n\nPrevious conversation:\n" \o h.str
    ELSE SYSTEM_PROMPT

\* mutant: "if tools is not None" in place of "if tools"
ApiParamsNotNone(q, h, t) ==
    LET base == Merge(BaseParams,
                      [messages |-> <<[role |-> "user", content |-> Str(q)]>>,
                       system |-> SystemContent(h)])
    IN  IF ~IsNone(t)
        THEN Merge(base, [tools |-> t, tool_choice |-> ToolChoiceAuto])
        ELSE base

\* generate_response: api_params of the initial call
ApiParams(q, h, t) ==
    LET base == Merge(BaseParams,
                      [messages |-> <<[role |-> "user", content |-> Str(q)]>>,
                       system |-> SystemContent(h)])
    IN  IF Truthy(t)
        THEN Merge(base, [tools |-> t, tool_choice |-> ToolChoiceAuto])
        ELSE base

\* generate_response: is the tool loop entered
EntersToolLoop(resp, tm) == resp.stop_reason = "tool_use" /\ Truthy(tm)

\* mutant: the first content item is read without the emptiness guard
DirectReturnUnguarded(resp) ==
    IF Len(resp.content) > 0 /\ HasAttr(resp.content[1], "text")
    THEN [kind |-> "returned", value |-> resp.content[1].text]
    ELSE [kind |-> "raised", value |-> "IndexError"]

\* generate_response: the direct return, [kind, value]
DirectReturn(resp) ==
    IF Len(resp.content) > 0
    THEN IF HasAttr(resp.content[1], "text")
         THEN [kind |-> "returned", value |-> resp.content[1].text]
         ELSE [kind |-> "raised", value |-> "AttributeError: text"]
    ELSE [kind |-> "returned", value |-> NoResponseGenerated]

\* mutant: a batch is started with the counter already at the maximum
ContinueLoopOffByOne(resp, rc, maxr, tm) ==
    resp.stop_reason = "tool_use" /\ rc <= maxr /\ Truthy(tm)

\* mutant: the loop has no round cap
ContinueLoopUncapped(resp, rc, maxr, tm) ==
    resp.stop_reason = "tool_use" /\ Truthy(tm)

\* mutant: the loop goes on after a response that stopped naturally
ContinueLoopIgnoresStop(resp, rc, maxr, tm) ==
    rc < maxr /\ Truthy(tm)

\* mutant: the first batch is run whatever the maximum is
ContinueLoopAtLeastOnce(resp, rc, maxr, tm) ==
    resp.stop_reason = "tool_use" /\ (rc < maxr \/ rc = 0) /\ Truthy(tm)

\* the while condition of _handle_sequential_tool_execution
ContinueLoop(resp, rc, maxr, tm) ==
    resp.stop_reason = "tool_use" /\ rc < maxr /\ Truthy(tm)

\* mutant: the finalization is never reached
NeedsFinalizationNever(resp, rc, maxr) ==
    resp.stop_reason = "tool_use" /\ rc > maxr

\* the condition of the finalization call
NeedsFinalization(resp, rc, maxr) ==
    resp.stop_reason = "tool_use" /\ rc >= maxr

\* mutant: the call after a batch is sent with the bare policy text
NextParamsBareSystem(msgs, base) ==
    Merge(BaseParams,
          [messages |-> msgs,
           system |-> SYSTEM_PROMPT,
           tools |-> IF "tools" \in DOMAIN base THEN base.tools ELSE List(<<>>),
           tool_choice |-> ToolChoiceAuto])

\* next_params of the call that follows a tool batch
NextParams(msgs, base) ==
    Merge(BaseParams,
          [messages |-> msgs,
           system |-> base.system,
           tools |-> IF "tools" \in DOMAIN base THEN base.tools ELSE List(<<>>),
           tool_choice |-> ToolChoiceAuto])

\* mutant: the synthesis turn takes the place of the last turn
FinalMessagesReplacing(msgs) ==
    Append(SubSeq(msgs, 1, Len(msgs) - 1), [role |-> "user", content |-> Str(SynthesisPrompt)])

\* final_messages of the finalization call
FinalMessages(msgs) ==
    Append(msgs, [role |-> "user", content |-> Str(SynthesisPrompt)])

\* mutant: the finalization call still offers the tools
FinalParamsWithTools(fmsgs, base) ==
    Merge(BaseParams,
          [messages |-> fmsgs,
           system |-> base.system,
           tools |-> IF "tools" \in DOMAIN base THEN base.tools ELSE List(<<>>),
           tool_choice |-> ToolChoiceAuto])

\* final_params of the finalization call
FinalParams(fmsgs, base) ==
    Merge(BaseParams, [messages |-> fmsgs, system |-> base.system])

\* mutant: the round is numbered from 0
RoundErrorTextZeroBased(rc, e) ==
    "Error in tool execution round " \o ToString(rc - 1) \o ": " \o e

RoundErrorText(rc, e) ==
    "Error in tool execution round " \o ToString(rc) \o ": " \o e

\* mutant: the finalization failure is reported as a round failure
FinalErrorTextAsRound(e) == "Error in tool execution round: " \o e

FinalErrorText(e) == "Error in final response generation: " \o e

\* mutant: the entry is tagged with the tool's name instead of the call id
ToolResultOkWrongId(block, out) ==
    [type |-> "tool_result", tool_use_id |-> block.name, content |-> out]

\* _execute_tool_round: the entry of a tool that returned
ToolResultOk(block, out) ==
    [type |-> "tool_result", tool_use_id |-> block.id, content |-> out]

\* mutant: the entry of a failed tool is not marked as an error
ToolResultErrorUnmarked(block, e) ==
    [type |-> "tool_result", tool_use_id |-> block.id,
     content |-> "Tool execution error: " \o e]

\* _execute_tool_round: the entry of a tool that raised
ToolResultError(block, e) ==
    [type |-> "tool_result", tool_use_id |-> block.id,
     content |-> "Tool execution error: " \o e, is_error |-> TRUE]

\* mutant: an empty batch is not detected
NoResultsNever(tr) == FALSE

\* "if not tool_results": the batch produced nothing
NoResults(tr) == Len(tr) = 0

\* _extract_response_text: does the scan return at this block
ReturnsAtBlock(b) ==
    IF HasAttr(b, "text") /\ HasAttr(b, "type")
    THEN b.type # "tool_use"
    ELSE HasAttr(b, "text") /\ b.text # ""

\* mutant: only the first content item is looked at
ExtractResponseTextFirstOnly(resp) ==
    IF Len(resp.content) > 0
    THEN IF ReturnsAtBlock(resp.content[1])
         THEN resp.content[1].text
         ELSE OnlyToolUseFallback
    ELSE EmptyContentFallback

\* _extract_response_text
ExtractResponseText(resp) ==
    IF Len(resp.content) > 0
    THEN LET hits == {i \in 1..Len(resp.content) : ReturnsAtBlock(resp.content[i])}
         IN  IF hits # {}
             THEN resp.content[CHOOSE i \in hits : \A j \in hits : i <= j].text
             ELSE OnlyToolUseFallback
    ELSE EmptyContentFallback

\* ---------------------------------------------------------------- actions
\* log of one model call: where in the code it is made and what it carries
Call(kind, params) == [kind |-> kind, params |-> params]
Returned(resp) == [raised |-> FALSE, response |-> resp]
Raised(e) == [raised |-> TRUE, detail |-> e]
\* log of one execute_tool call: the round and the number of model calls made
\* before it, the request, and what the tool returned or raised
Exec(rc, ncalls, block, raised, v) ==
    [round |-> rc, calls |-> ncalls, id |-> block.id, name |-> block.name,
     raised |-> raised, value |-> v]

\* generate_response, up to the initial model call
GenerateResponse ==
    /\ pc = "idle"
    /\ \E q \in Queries, h \in Histories, t \in ToolsInputs, tm \in ToolManagers :
        /\ query' = q
        /\ conversation_history' = h
        /\ tools' = t
        /\ tool_manager' = tm
        /\ api_params' = ApiParams(q, h, t)
    /\ pc' = "initial_call"
    /\ UNCHANGED <<max_tool_rounds, messages, current_response, round_count,
                   tool_results, idx, final_messages, result, calls, replies, execs,
                   emitted, batches>>
    /\ UNCHANGED outside_engine

\* the initial model call returns; the direct return, or the entry of
\* _handle_sequential_tool_execution
InitialCallReturns ==
    /\ pc = "initial_call"
    /\ \E sr \in StopReasons, shape \in Shapes(MaxBlocks - emitted) :
        LET resp == MkResponse(sr, shape, Len(calls) + 1) IN
        /\ emitted' = emitted + Len(shape)
        /\ calls' = Append(calls, Call("initial", api_params))
        /\ replies' = Append(replies, Returned(resp))
        /\ current_response' = resp
        /\ IF EntersToolLoop(resp, tool_manager)
           THEN /\ messages' = api_params.messages
                /\ round_count' = 0
                /\ pc' = "loop"
                /\ UNCHANGED result
           ELSE /\ pc' = DirectReturn(resp).kind
                /\ result' = DirectReturn(resp).value
                /\ UNCHANGED <<messages, round_count>>
    /\ UNCHANGED <<max_tool_rounds, args, api_params, tool_results, idx,
                   final_messages, execs, batches>>
    /\ UNCHANGED outside_engine

\* the initial model call raises: nothing catches it
InitialCallRaises ==
    /\ pc = "initial_call"
    /\ \E e \in ErrorDetails :
        /\ calls' = Append(calls, Call("initial", api_params))
        /\ replies' = Append(replies, Raised(e))
        /\ result' = e
    /\ pc' = "raised"
    /\ UNCHANGED <<max_tool_rounds, args, api_params, messages, current_response,
                   round_count, tool_results, idx, final_messages, execs,
                   emitted, batches>>
    /\ UNCHANGED outside_engine

\* mutant: a batch is started whatever the while condition says
BeginRoundUnconditional ==
    /\ pc = "loop"
    /\ round_count' = round_count + 1
    /\ messages' = Append(messages,
                          [role |-> "assistant", content |-> List(current_response.content)])
    /\ tool_results' = <<>>
    /\ idx' = 1
    /\ batches' = Append(batches, round_count)
    /\ pc' = "exec"
    /\ UNCHANGED <<max_tool_rounds, args, api_params, current_response,
                   final_messages, result, calls, replies, execs,
                   emitted>>
    /\ UNCHANGED outside_engine

\* the while condition holds: a tool batch is started
BeginRound ==
    /\ pc = "loop"
    /\ ContinueLoop(current_response, round_count, max_tool_rounds, tool_manager)
    /\ round_count' = round_count + 1
    /\ messages' = Append(messages,
                          [role |-> "assistant", content |-> List(current_response.content)])
    /\ tool_results' = <<>>
    /\ idx' = 1
    /\ batches' = Append(batches, round_count)
    /\ pc' = "exec"
    /\ UNCHANGED <<max_tool_rounds, args, api_params, current_response,
                   final_messages, result, calls, replies, execs,
                   emitted>>
    /\ UNCHANGED outside_engine

\* _execute_tool_round: a block that is no tool_use block is passed over
SkipBlock ==
    /\ pc = "exec"
    /\ idx <= Len(current_response.content)
    /\ current_response.content[idx].type # "tool_use"
    /\ idx' = idx + 1
    /\ UNCHANGED <<pc, max_tool_rounds, args, api_params, messages, current_response,
                   round_count, tool_results, final_messages, result, calls,
                   replies, execs,
                   emitted, batches>>
    /\ UNCHANGED outside_engine

\* mutant: the loop of _execute_tool_round does not move on after a tool returned
ExecuteToolReturnsAgain ==
    /\ pc = "exec"
    /\ idx <= Len(current_response.content)
    /\ current_response.content[idx].type = "tool_use"
    /\ LET block == current_response.content[idx] IN
        /\ execs' = Append(execs, Exec(round_count, Len(calls), block, FALSE, ToolOutput))
        /\ tool_results' = Append(tool_results, ToolResultOk(block, ToolOutput))
    /\ UNCHANGED <<pc, max_tool_rounds, args, api_params, messages, current_response,
                   round_count, final_messages, result, calls, replies, idx,
                   emitted, batches>>
    /\ UNCHANGED outside_engine

\* _execute_tool_round: the tool of a tool_use block returns
ExecuteToolReturns ==
    /\ pc = "exec"
    /\ idx <= Len(current_response.content)
    /\ current_response.content[idx].type = "tool_use"
    /\ LET block == current_response.content[idx] IN
        /\ execs' = Append(execs, Exec(round_count, Len(calls), block, FALSE, ToolOutput))
        /\ tool_results' = Append(tool_results, ToolResultOk(block, ToolOutput))
    /\ idx' = idx + 1
    /\ UNCHANGED <<pc, max_tool_rounds, args, api_params, messages, current_response,
                   round_count, final_messages, result, calls, replies,
                   emitted, batches>>
    /\ UNCHANGED outside_engine

\* mutant: a tool that raises leaves no result
ExecuteToolRaisesDropped ==
    /\ pc = "exec"
    /\ idx <= Len(current_response.content)
    /\ current_response.content[idx].type = "tool_use"
    /\ \E e \in ErrorDetails :
        LET block == current_response.content[idx] IN
        execs' = Append(execs, Exec(round_count, Len(calls), block, TRUE, e))
    /\ idx' = idx + 1
    /\ UNCHANGED <<pc, max_tool_rounds, args, api_params, messages, current_response,
                   round_count, tool_results, final_messages, result, calls, replies,
                   emitted, batches>>
    /\ UNCHANGED outside_engine

\* _execute_tool_round: the tool of a tool_use block raises
ExecuteToolRaises ==
    /\ pc = "exec"
    /\ idx <= Len(current_response.content)
    /\ current_response.content[idx].type = "tool_use"
    /\ \E e \in ErrorDetails :
        LET block == current_response.content[idx] IN
        /\ execs' = Append(execs, Exec(round_count, Len(calls), block, TRUE, e))
        /\ tool_results' = Append(tool_results, ToolResultError(block, e))
    /\ idx' = idx + 1
    /\ UNCHANGED <<pc, max_tool_rounds, args, api_params, messages, current_response,
                   round_count, final_messages, result, calls, replies,
                   emitted, batches>>
    /\ UNCHANGED outside_engine

\* the batch is over and has no result: the fixed failure string
BatchFault ==
    /\ pc = "exec"
    /\ idx > Len(current_response.content)
    /\ NoResults(tool_results)
    /\ result' = ToolExecutionFailed
    /\ pc' = "returned"
    /\ UNCHANGED <<max_tool_rounds, args, api_params, messages, current_response,
                   round_count, tool_results, idx, final_messages, calls, replies,
                   execs,
                   emitted, batches>>
    /\ UNCHANGED outside_engine

\* mutant: the results are fed back as an assistant turn
FeedResultsAsAssistant ==
    /\ pc = "exec"
    /\ idx > Len(current_response.content)
    /\ ~NoResults(tool_results)
    /\ messages' = Append(messages, [role |-> "assistant", content |-> List(tool_results)])
    /\ pc' = "next_call"
    /\ UNCHANGED <<max_tool_rounds, args, api_params, current_response, round_count,
                   tool_results, idx, final_messages, result, calls, replies, execs,
                   emitted, batches>>
    /\ UNCHANGED outside_engine

\* the batch is over: its results become one user turn
FeedResults ==
    /\ pc = "exec"
    /\ idx > Len(current_response.content)
    /\ ~NoResults(tool_results)
    /\ messages' = Append(messages, [role |-> "user", content |-> List(tool_results)])
    /\ pc' = "next_call"
    /\ UNCHANGED <<max_tool_rounds, args, api_params, current_response, round_count,
                   tool_results, idx, final_messages, result, calls, replies, execs,
                   emitted, batches>>
    /\ UNCHANGED outside_engine

\* the model call after a tool batch returns
NextCallReturns ==
    /\ pc = "next_call"
    /\ \E sr \in StopReasons, shape \in Shapes(MaxBlocks - emitted) :
        LET resp == MkResponse(sr, shape, Len(calls) + 1) IN
        /\ emitted' = emitted + Len(shape)
        /\ calls' = Append(calls, Call("round", NextParams(messages, api_params)))
        /\ replies' = Append(replies, Returned(resp))
        /\ current_response' = resp
    /\ pc' = "loop"
    /\ UNCHANGED <<max_tool_rounds, args, api_params, messages, round_count,
                   tool_results, idx, final_messages, result, execs, batches>>
    /\ UNCHANGED outside_engine

\* mutant: a failed call after a tool batch is attempted again
NextCallRaisesRetry ==
    /\ pc = "next_call"
    /\ \E e \in ErrorDetails :
        /\ calls' = Append(calls, Call("round", NextParams(messages, api_params)))
        /\ replies' = Append(replies, Raised(e))
    /\ UNCHANGED <<pc, max_tool_rounds, args, api_params, messages, current_response,
                   round_count, tool_results, idx, final_messages, result, execs,
                   emitted, batches>>
    /\ UNCHANGED outside_engine

\* the model call after a tool batch raises: the round's error string
NextCallRaises ==
    /\ pc = "next_call"
    /\ \E e \in ErrorDetails :
        /\ calls' = Append(calls, Call("round", NextParams(messages, api_params)))
        /\ replies' = Append(replies, Raised(e))
        /\ result' = RoundErrorText(round_count, e)
    /\ pc' = "returned"
    /\ UNCHANGED <<max_tool_rounds, args, api_params, messages, current_response,
                   round_count, tool_results, idx, final_messages, execs,
                   emitted, batches>>
    /\ UNCHANGED outside_engine

\* mutant: the response that triggers the finalization is appended as a turn
FinalizeAppendingResponse ==
    /\ pc = "loop"
    /\ ~ContinueLoop(current_response, round_count, max_tool_rounds, tool_manager)
    /\ NeedsFinalization(current_response, round_count, max_tool_rounds)
    /\ final_messages' = FinalMessages(
            Append(messages, [role |-> "assistant",
                              content |-> List(current_response.content)]))
    /\ pc' = "final_call"
    /\ UNCHANGED <<max_tool_rounds, args, api_params, messages, current_response,
                   round_count, tool_results, idx, result, calls, replies, execs,
                   emitted, batches>>
    /\ UNCHANGED outside_engine

\* the loop is left with tools still requested: the finalization call is prepared
Finalize ==
    /\ pc = "loop"
    /\ ~ContinueLoop(current_response, round_count, max_tool_rounds, tool_manager)
    /\ NeedsFinalization(current_response, round_count, max_tool_rounds)
    /\ final_messages' = FinalMessages(messages)
    /\ pc' = "final_call"
    /\ UNCHANGED <<max_tool_rounds, args, api_params, messages, current_response,
                   round_count, tool_results, idx, result, calls, replies, execs,
                   emitted, batches>>
    /\ UNCHANGED outside_engine

\* the loop is left and no finalization is needed: the text is extracted
ReturnAfterLoop ==
    /\ pc = "loop"
    /\ ~ContinueLoop(current_response, round_count, max_tool_rounds, tool_manager)
    /\ ~NeedsFinalization(current_response, round_count, max_tool_rounds)
    /\ result' = ExtractResponseText(current_response)
    /\ pc' = "returned"
    /\ UNCHANGED <<max_tool_rounds, args, api_params, messages, current_response,
                   round_count, tool_results, idx, final_messages, calls, replies,
                   execs,
                   emitted, batches>>
    /\ UNCHANGED outside_engine

\* the finalization call returns: the text is extracted
FinalCallReturns ==
    /\ pc = "final_call"
    /\ \E sr \in StopReasons, shape \in Shapes(MaxBlocks - emitted) :
        LET resp == MkResponse(sr, shape, Len(calls) + 1) IN
        /\ emitted' = emitted + Len(shape)
        /\ calls' = Append(calls, Call("final", FinalParams(final_messages, api_params)))
        /\ replies' = Append(replies, Returned(resp))
        /\ current_response' = resp
        /\ result' = ExtractResponseText(resp)
    /\ pc' = "returned"
    /\ UNCHANGED <<max_tool_rounds, args, api_params, messages, round_count,
                   tool_results, idx, final_messages, execs, batches>>
    /\ UNCHANGED outside_engine

\* the finalization call raises: the finalization error string
FinalCallRaises ==
    /\ pc = "final_call"
    /\ \E e \in ErrorDetails :
        /\ calls' = Append(calls, Call("final", FinalParams(final_messages, api_params)))
        /\ replies' = Append(replies, Raised(e))
        /\ result' = FinalErrorText(e)
    /\ pc' = "returned"
    /\ UNCHANGED <<max_tool_rounds, args, api_params, messages, current_response,
                   round_count, tool_results, idx, final_messages, execs,
                   emitted, batches>>
    /\ UNCHANGED outside_engine

Next ==
    \/ GenerateResponse
    \/ InitialCallRaises
    \/ InitialCallReturns
    \/ BeginRound
    \/ SkipBlock
    \/ ExecuteToolReturns
    \/ ExecuteToolRaises
    \/ BatchFault
    \/ FeedResults
    \/ NextCallReturns
    \/ NextCallRaises
    \/ Finalize
    \/ ReturnAfterLoop
    \/ FinalCallReturns
    \/ FinalCallRaises

Spec == Init /\ [][Next]_vars

\* the code runs on: every enabled step of the single thread is taken
FairSpec == Spec /\ WF_vars(Next)

Done == pc \in {"returned", "raised"}

\* ------------------------------------------------------ the tool registry
\* ToolManager and the tools, as specified in section 4.1 to 4.3 and used in
\* the tests; the engine reaches the registry through execute_tool only

\* names a model may request
ExecNames == {"search_course_content", "get_course_outline", "nonexistent_tool"}

\* number of matches a content search may find
Matches == {0, 1}

\* the sentinel of execute_tool for an unregistered name
ToolNotFound(name) == "Tool '" \o name \o "' not found"

\* a Source, tagged with the batch and the operation that recorded it
Source(b, k, i) == [batch |-> b, op |-> k, n |-> i]

\* mutant: a name collision keeps the tool registered first
RegisterFirstWins(ts, tool) ==
    IF \E i \in 1..Len(ts) : ts[i].name = tool.name
    THEN ts
    ELSE Append(ts, tool)

\* register_tool: keyed by the definition's name, the last registration wins
Register(ts, tool) ==
    IF \E i \in 1..Len(ts) : ts[i].name = tool.name
    THEN [i \in 1..Len(ts) |-> IF ts[i].name = tool.name THEN tool ELSE ts[i]]
    ELSE Append(ts, tool)

\* the tools registered under a name: none or one
Lookup(ts, name) == SelectSeq(ts, LAMBDA t : t.name = name)

\* Tool.execute: the text returned and the tool's buffer afterwards; a
\* content search with matches records one Source per result, the outline
\* tool and a search without matches record none
ToolExecute(tool, n, b, k, buf) ==
    IF tool.name = "search_course_content"
    THEN IF n > 0
         THEN [output |-> "[Test Course - Lesson 1]\nTest content",
               buffer |-> buf \o [i \in 1..n |-> Source(b, k, i)]]
         ELSE [output |-> "No relevant content found", buffer |-> buf]
    ELSE [output |-> "Course Title: Test Course", buffer |-> buf]

\* get_last_sources: the buffers of the registered tools, in registration order
RECURSIVE GetLastSources(_, _)
GetLastSources(ts, bufs) ==
    IF ts = <<>>
    THEN <<>>
    ELSE bufs[Head(ts)] \o GetLastSources(Tail(ts), bufs)

\* reset_sources: every registered tool's buffer is emptied
ResetSources(ts, bufs) ==
    [t \in DOMAIN bufs |->
        IF \E i \in 1..Len(ts) : ts[i] = t THEN <<>> ELSE bufs[t]]

RegOpen == Len(reg_ops) < MaxRegOps

register_tool ==
    /\ RegOpen
    /\ \E tool \in ToolInstances :
        /\ reg_tools' = Register(reg_tools, tool)
        /\ reg_ops' = Append(reg_ops, [op |-> "register", tool |-> tool])
    /\ UNCHANGED <<last_sources, batch, batch_execs>>
    /\ UNCHANGED outside_registry

\* execute_tool with a registered name, called by the engine during a
\* batch: one call of the tool's execute
execute_tool ==
    /\ RegOpen
    /\ batch >= 1
    /\ \E name \in ExecNames, n \in Matches :
        /\ Lookup(reg_tools, name) # <<>>
        /\ n > 0 => name = "search_course_content"
        /\ LET tool == Lookup(reg_tools, name)[1]
               r == ToolExecute(tool, n, batch, Len(reg_ops) + 1, last_sources[tool])
           IN  /\ last_sources' = [last_sources EXCEPT ![tool] = r.buffer]
               /\ reg_ops' = Append(reg_ops,
                     [op |-> "execute", name |-> name, batch |-> batch,
                      delegated |-> <<[tool |-> tool, returned |-> r.output]>>,
                      result |-> r.output])
    /\ batch_execs' = batch_execs + 1
    /\ UNCHANGED <<reg_tools, batch>>
    /\ UNCHANGED outside_registry

\* execute_tool with a name that is not registered
execute_tool_unknown ==
    /\ RegOpen
    /\ batch >= 1
    /\ \E name \in ExecNames :
        /\ Lookup(reg_tools, name) = <<>>
        /\ reg_ops' = Append(reg_ops,
              [op |-> "execute", name |-> name, batch |-> batch,
               delegated |-> <<>>, result |-> ToolNotFound(name)])
    /\ batch_execs' = batch_execs + 1
    /\ UNCHANGED <<reg_tools, last_sources, batch>>
    /\ UNCHANGED outside_registry

\* the engine starts a tool batch: the round counter is incremented and no
\* registry method is called
start_batch ==
    /\ RegOpen
    /\ batch < max_tool_rounds
    /\ batch' = batch + 1
    /\ batch_execs' = 0
    /\ UNCHANGED <<reg_tools, last_sources, reg_ops>>
    /\ UNCHANGED outside_registry

\* mutant: reading the sources also empties the buffers
get_last_sources_draining ==
    /\ RegOpen
    /\ reg_ops' = Append(reg_ops,
          [op |-> "collect", value |-> GetLastSources(reg_tools, last_sources)])
    /\ last_sources' = ResetSources(reg_tools, last_sources)
    /\ UNCHANGED <<reg_tools, batch, batch_execs>>
    /\ UNCHANGED outside_registry

get_last_sources ==
    /\ RegOpen
    /\ reg_ops' = Append(reg_ops,
          [op |-> "collect", value |-> GetLastSources(reg_tools, last_sources)])
    /\ UNCHANGED <<reg_tools, last_sources, batch, batch_execs>>
    /\ UNCHANGED outside_registry

reset_sources ==
    /\ RegOpen
    /\ last_sources' = ResetSources(reg_tools, last_sources)
    /\ reg_ops' = Append(reg_ops, [op |-> "clear"])
    /\ UNCHANGED <<reg_tools, batch, batch_execs>>
    /\ UNCHANGED outside_registry

RegNext ==
    \/ register_tool
    \/ execute_tool
    \/ execute_tool_unknown
    \/ start_batch
    \/ get_last_sources
    \/ reset_sources

\* the registry under an engine configured with the largest round budget
RegInit == Init /\ max_tool_rounds = MaxRounds

RegistrySpec == RegInit /\ [][RegNext]_vars

\* ------------------------------------------------------------- the tools
\* one call of CourseSearchTool.execute or CourseOutlineTool.execute against
\* the vector index, as specified in sections 4.2 and 4.3

Num(n) == [num |-> n]

ToolKinds == {"search_course_content", "get_course_outline"}
CourseNames == {NoneVal, Str("Test Course"), Str("Nonexistent Course")}
LessonNumbers == {NoneVal, Num(1)}
IndexError == "Search error: index unavailable"

\* what the index knows of a chunk: its lesson number and the lesson's link
ResultKinds ==
    {[lesson_number |-> NoneVal, link |-> NoneVal],
     [lesson_number |-> Num(1), link |-> NoneVal],
     [lesson_number |-> Num(1), link |-> Str("https://example.com/lesson1")],
     [lesson_number |-> Num(2), link |-> Str("https://example.com/lesson2")]}

\* the i-th match of a content search
MkResult(k, i) ==
    [course_title |-> "Test Course", lesson_number |-> k.lesson_number,
     link |-> k.link, text |-> "Test content " \o ToString(i)]

\* the result lists a content search may return
ResultLists ==
    UNION {{[i \in 1..m |-> MkResult(ks[i], i)] : ks \in [1..m -> ResultKinds]} :
              m \in 0..MaxResults}

\* mutant: the message lacks the final period
CourseNotFoundNoPeriod(name) == "No course found matching '" \o name \o "'"

\* the result of a failed course-name resolution
CourseNotFound(name) == "No course found matching '" \o name \o "'."

\* the result of a content search without matches, with the active filters
NoContentFound(call) ==
    "No relevant content found"
        \o (IF IsStr(call.course_name)
            THEN " in course '" \o call.course_name.str \o "'" ELSE "")
        \o (IF IsNone(call.lesson_number)
            THEN "" ELSE " in lesson " \o ToString(call.lesson_number.num))

\* "<course title> - Lesson <n>", the lesson part only when the chunk has one
Label(r) ==
    r.course_title
        \o (IF IsNone(r.lesson_number)
            THEN "" ELSE " - Lesson " \o ToString(r.lesson_number.num))

\* the labeled block of one result
Block(r) == "[" \o Label(r) \o "]\n" \o r.text

\* the Source of one result, with the lesson link when the index has one
SourceOf(r) == Label(r) \o (IF IsStr(r.link) THEN "|" \o r.link.str ELSE "")

\* the blocks, joined by blank lines
RECURSIVE JoinBlocks(_)
JoinBlocks(bs) ==
    IF bs = <<>> THEN ""
    ELSE IF Len(bs) = 1 THEN bs[1]
    ELSE bs[1] \o "\n\n" \o JoinBlocks(Tail(bs))

\* the Sources of a result list without repetitions
RECURSIVE DistinctSources(_)
DistinctSources(rs) ==
    IF rs = <<>> THEN <<>>
    ELSE LET front == DistinctSources(SubSeq(rs, 1, Len(rs) - 1))
             src == SourceOf(rs[Len(rs)])
         IN  IF \E i \in 1..Len(front) : front[i] = src
             THEN front ELSE Append(front, src)

\* mutant: a Source that is already recorded is not recorded again
FormatResultsDistinct(rs) ==
    [output |-> JoinBlocks([i \in 1..Len(rs) |-> Block(rs[i])]),
     sources |-> DistinctSources(rs)]

\* the formatting of a non-empty result list: the output and the Sources
FormatResults(rs) ==
    [output |-> JoinBlocks([i \in 1..Len(rs) |-> Block(rs[i])]),
     sources |-> [i \in 1..Len(rs) |-> SourceOf(rs[i])]]

\* the formatting of a course outline
FormatOutline(title) ==
    "**Course:** " \o title \o "\n**Course Link:** https://example.com/course"
        \o "\n**Lessons:**\n1. Introduction\n2. Advanced Topics"

\* execute is called
tool_execute ==
    /\ t_pc = "idle"
    /\ \E tool \in ToolKinds, cn \in CourseNames, ln \in LessonNumbers :
        /\ tool = "get_course_outline" => (IsStr(cn) /\ IsNone(ln))
        /\ t_call' = [tool |-> tool, course_name |-> cn, lesson_number |-> ln]
        /\ t_pc' = IF IsStr(cn) THEN "resolving" ELSE "searching"
    /\ UNCHANGED <<t_title, t_results, t_store_ops, t_output, t_sources>>
    /\ UNCHANGED outside_tool

\* the index resolves the course name to a title
resolve_found ==
    /\ t_pc = "resolving"
    /\ t_store_ops' = Append(t_store_ops, "resolve_course_name")
    /\ t_title' = Str("Test Course")
    /\ t_pc' = IF t_call.tool = "search_course_content" THEN "searching" ELSE "outlining"
    /\ UNCHANGED <<t_call, t_results, t_output, t_sources>>
    /\ UNCHANGED outside_tool

\* the index resolves the course name to nothing: the tool returns
resolve_not_found ==
    /\ t_pc = "resolving"
    /\ t_store_ops' = Append(t_store_ops, "resolve_course_name")
    /\ t_output' = Str(CourseNotFound(t_call.course_name.str))
    /\ t_pc' = "done"
    /\ UNCHANGED <<t_call, t_title, t_results, t_sources>>
    /\ UNCHANGED outside_tool

\* the content search returns its matches: none, or formatted results
search_returns ==
    /\ t_pc = "searching"
    /\ t_store_ops' = Append(t_store_ops, "search")
    /\ \E rs \in ResultLists :
        /\ t_results' = rs
        /\ IF rs = <<>>
           THEN /\ t_output' = Str(NoContentFound(t_call))
                /\ UNCHANGED t_sources
           ELSE /\ t_output' = Str(FormatResults(rs).output)
                /\ t_sources' = t_sources \o FormatResults(rs).sources
    /\ t_pc' = "done"
    /\ UNCHANGED <<t_call, t_title>>
    /\ UNCHANGED outside_tool

\* the index reports an error: the error string is the result
search_fails ==
    /\ t_pc = "searching"
    /\ t_store_ops' = Append(t_store_ops, "search")
    /\ t_output' = Str(IndexError)
    /\ t_pc' = "done"
    /\ UNCHANGED <<t_call, t_title, t_results, t_sources>>
    /\ UNCHANGED outside_tool

\* the outline of the resolved course is returned; no Source is recorded
outline_returns ==
    /\ t_pc = "outlining"
    /\ t_store_ops' = Append(t_store_ops, "get_course_outline")
    /\ t_output' = Str(FormatOutline(t_title.str))
    /\ t_pc' = "done"
    /\ UNCHANGED <<t_call, t_title, t_results, t_sources>>
    /\ UNCHANGED outside_tool

ToolNext ==
    \/ tool_execute
    \/ resolve_found
    \/ resolve_not_found
    \/ search_returns
    \/ search_fails
    \/ outline_returns

ToolSpec == Init /\ [][ToolNext]_vars

\* ------------------------------------------------------- the orchestrator
\* RAGSystem.query on one shared ToolManager: the engine is run, the
\* sources are read, then cleared (section 3, Source; section 2, Orchestrator)

\* the tools the orchestrator registers when it is constructed
OrchTools ==
    <<[name |-> "search_course_content", inst |-> 1],
      [name |-> "get_course_outline", inst |-> 1]>>

\* the tool the engine is seen to execute: a content search, with or
\* without matches
OrchExecNames == {"search_course_content"}

\* the orchestrator is constructed: both tools are registered
orch_construct ==
    /\ ~orch.constructed
    /\ reg_tools' = Register(Register(reg_tools, OrchTools[1]), OrchTools[2])
    /\ orch' = [orch EXCEPT !.constructed = TRUE]
    /\ UNCHANGED <<last_sources, reg_ops>>
    /\ UNCHANGED outside_orch

\* a caller starts a query: the engine is entered
orch_begin(c) ==
    /\ orch.constructed
    /\ orch.pc[c] = "idle"
    /\ orch.started < MaxQueries
    /\ orch' = [orch EXCEPT !.started = @ + 1,
                            !.pc[c] = "engine",
                            !.query[c] = orch.started + 1,
                            !.ran[c] = 0,
                            !.got[c] = <<>>]
    /\ UNCHANGED <<reg_tools, last_sources, reg_ops>>
    /\ UNCHANGED outside_orch

\* the engine of a caller's query executes a tool through the registry
orch_execute(c) ==
    /\ orch.pc[c] = "engine"
    /\ RegOpen
    /\ \E name \in OrchExecNames, n \in Matches :
        /\ LET found == Lookup(reg_tools, name)
               k == Len(reg_ops) + 1
           IN  IF found = <<>>
               THEN /\ reg_ops' = Append(reg_ops,
                          [op |-> "execute", query |-> orch.query[c], name |-> name,
                           n |-> 0, result |-> ToolNotFound(name)])
                    /\ UNCHANGED last_sources
               ELSE LET r == ToolExecute(found[1], n, batch, k, last_sources[found[1]])
                    IN  /\ last_sources' = [last_sources EXCEPT ![found[1]] = r.buffer]
                        /\ reg_ops' = Append(reg_ops,
                              [op |-> "execute", query |-> orch.query[c], name |-> name,
                               n |-> n, result |-> r.output])
    /\ orch' = [orch EXCEPT !.ran[c] = @ + 1]
    /\ UNCHANGED reg_tools
    /\ UNCHANGED outside_orch

\* the engine returns its answer
orch_engine_returns(c) ==
    /\ orch.pc[c] = "engine"
    /\ orch' = [orch EXCEPT !.pc[c] = "collect"]
    /\ UNCHANGED <<reg_tools, last_sources, reg_ops>>
    /\ UNCHANGED outside_orch

\* the engine raises, which it does only before any tool execution: the
\* query is over without the sources being read or cleared
orch_engine_raises(c) ==
    /\ orch.pc[c] = "engine"
    /\ orch.ran[c] = 0
    /\ orch' = [orch EXCEPT !.pc[c] = "idle"]
    /\ UNCHANGED <<reg_tools, last_sources, reg_ops>>
    /\ UNCHANGED outside_orch

\* mutant: the caller is handed the Sources of its own query only
orch_collect_own(c) ==
    /\ orch.pc[c] = "collect"
    /\ RegOpen
    /\ LET own == SelectSeq(GetLastSources(reg_tools, last_sources),
                            LAMBDA src : reg_ops[src.op].query = orch.query[c])
       IN  /\ reg_ops' = Append(reg_ops,
                  [op |-> "collect", query |-> orch.query[c], value |-> own])
           /\ orch' = [orch EXCEPT !.pc[c] = "clear", !.got[c] = own]
    /\ UNCHANGED <<reg_tools, last_sources>>
    /\ UNCHANGED outside_orch

\* the sources are read from the registry
orch_collect(c) ==
    /\ orch.pc[c] = "collect"
    /\ RegOpen
    /\ LET value == GetLastSources(reg_tools, last_sources)
       IN  /\ reg_ops' = Append(reg_ops,
                  [op |-> "collect", query |-> orch.query[c], value |-> value])
           /\ orch' = [orch EXCEPT !.pc[c] = "clear", !.got[c] = value]
    /\ UNCHANGED <<reg_tools, last_sources>>
    /\ UNCHANGED outside_orch

\* mutant: the query is completed without the buffers being emptied
orch_clear_skipped(c) ==
    /\ orch.pc[c] = "clear"
    /\ RegOpen
    /\ reg_ops' = Append(reg_ops, [op |-> "clear", query |-> orch.query[c]])
    /\ orch' = [orch EXCEPT !.pc[c] = "idle",
                            !.answers = Append(@, [query |-> orch.query[c],
                                                   sources |-> orch.got[c]])]
    /\ UNCHANGED <<reg_tools, last_sources>>
    /\ UNCHANGED outside_orch

\* the buffers are cleared and the answer is returned with the sources read
orch_clear(c) ==
    /\ orch.pc[c] = "clear"
    /\ RegOpen
    /\ last_sources' = ResetSources(reg_tools, last_sources)
    /\ reg_ops' = Append(reg_ops, [op |-> "clear", query |-> orch.query[c]])
    /\ orch' = [orch EXCEPT !.pc[c] = "idle",
                            !.answers = Append(@, [query |-> orch.query[c],
                                                   sources |-> orch.got[c]])]
    /\ UNCHANGED reg_tools
    /\ UNCHANGED outside_orch

\* no other caller is inside a query
Alone(c) == \A d \in Callers \ {c} : orch.pc[d] = "idle"

\* queries of several callers without any serialization
OrchNext ==
    \/ orch_construct
    \/ \E c \in Callers : orch_begin(c)
    \/ \E c \in Callers : orch_execute(c)
    \/ \E c \in Callers : orch_engine_returns(c)
    \/ \E c \in Callers : orch_engine_raises(c)
    \/ \E c \in Callers : orch_collect(c)
    \/ \E c \in Callers : orch_clear(c)

\* one orchestrator, its engine configured with the largest round budget
OrchInit == Init /\ max_tool_rounds = MaxRounds

OrchSpec == OrchInit /\ [][OrchNext]_vars

\* queries executed one after the other
SerialNext ==
    \/ orch_construct
    \/ \E c \in Callers : Alone(c) /\ orch_begin(c)
    \/ \E c \in Callers : orch_execute(c)
    \/ \E c \in Callers : orch_engine_returns(c)
    \/ \E c \in Callers : orch_engine_raises(c)
    \/ \E c \in Callers : orch_collect(c)
    \/ \E c \in Callers : orch_clear(c)

SerialSpec == OrchInit /\ [][SerialNext]_vars

\* ------------------------------------------------------- reading the logs
\* the tool_use blocks of a content list, in order
ToolUses(content) == SelectSeq(content, LAMBDA b : b.type = "tool_use")

\* a response asks for at least one tool
RequestsTools(resp) == resp.stop_reason = "tool_use" /\ ToolUses(resp.content) # <<>>

\* the positions of the calls of one kind
CallsOfKind(k) == {i \in 1..Len(calls) : calls[i].kind = k}

NoCallFailed == \A i \in 1..Len(replies) : ~replies[i].raised

\* the text of the first text block of a response, if it has one
HasText(resp) == \E i \in 1..Len(resp.content) : resp.content[i].type = "text"
FirstText(resp) ==
    resp.content[CHOOSE i \in 1..Len(resp.content) :
                    /\ resp.content[i].type = "text"
                    /\ \A j \in 1..(i - 1) : resp.content[j].type # "text"].text

\* ----------------------------------------------------------------- claims

\* C1: generate_response never raises: whatever the model calls and the tool
\* executions do, the query ends by returning a string to the caller.
\* (Violated: a failure of the initial model call propagates.)
C1_NeverRaises == pc # "raised"

\* C2: the round counter starts at 0, grows by exactly 1 at every batch start,
\* is strictly below max_tool_rounds when a batch is started, and so never
\* exceeds max_tool_rounds; at most max_tool_rounds batches run in a query.
C2_RoundCounterBounded ==
    /\ round_count \in 0..max_tool_rounds
    /\ Len(batches) = round_count
    /\ Len(batches) <= max_tool_rounds
    /\ \A i \in 1..Len(batches) : batches[i] = i - 1 /\ batches[i] < max_tool_rounds

C2_Witness ==
    /\ Done
    /\ max_tool_rounds = 2
    /\ batches = <<0, 1>>
    /\ round_count = 2

\* C3: every query reaches a final state, even when the model requests tools
\* in every response, and makes at most max_tool_rounds + 2 model calls.
C3_Termination ==
    /\ <>Done
    /\ [](Len(calls) <= max_tool_rounds + 2)

C3_Witness ==
    /\ Done
    /\ max_tool_rounds >= 1
    /\ Len(calls) = max_tool_rounds + 2
    /\ \A i \in 1..(Len(replies) - 1) :
        ~replies[i].raised /\ replies[i].response.stop_reason = "tool_use"

\* C4: with max_tool_rounds = M >= 1, a tool manager, no failed model call and
\* a model that requests at least one tool in every tool-enabled response, the
\* query runs exactly M batches, then exactly one finalization call, which is
\* its last of M + 2 model calls, and returns the text of that response.
C4_Pre ==
    /\ Done
    /\ max_tool_rounds >= 1
    /\ Truthy(tool_manager)
    /\ NoCallFailed
    /\ \A i \in 1..Len(calls) :
        calls[i].kind # "final" => RequestsTools(replies[i].response)

C4_ForcedFinalization ==
    C4_Pre =>
        /\ Len(batches) = max_tool_rounds
        /\ Cardinality(CallsOfKind("final")) = 1
        /\ Len(calls) = max_tool_rounds + 2
        /\ calls[Len(calls)].kind = "final"
        /\ pc = "returned"
        /\ HasText(replies[Len(replies)].response)
            => result = FirstText(replies[Len(replies)].response)

C4_Witness ==
    /\ C4_Pre
    /\ max_tool_rounds = 2
    /\ Len(calls) = 4
    /\ HasText(replies[4].response)
    /\ result = FirstText(replies[4].response)

\* C5: the finalization call carries neither tool definitions nor a tool-choice
\* policy, is made at most once, only after a response with stop reason
\* tool_use and with the round counter at max_tool_rounds, and is the last
\* model call: no tool execution, no model call and no further step follows it.
C5_FinalizationCall ==
    /\ Cardinality(CallsOfKind("final")) <= 1
    /\ \A i \in CallsOfKind("final") :
        /\ "tools" \notin DOMAIN calls[i].params
        /\ "tool_choice" \notin DOMAIN calls[i].params
        /\ i = Len(calls)
        /\ i > 1
        /\ ~replies[i - 1].raised
        /\ replies[i - 1].response.stop_reason = "tool_use"
        /\ round_count >= max_tool_rounds
        /\ pc = "returned"
        /\ \A j \in 1..Len(execs) : execs[j].calls < i

C5_Witness ==
    /\ CallsOfKind("final") # {}
    /\ max_tool_rounds = 1
    /\ Len(execs) >= 1
    /\ pc = "returned"

\* C6: if the first k responses (1 <= k <= max_tool_rounds) request tools and
\* response k+1 stops naturally, with no failed model call, the query runs
\* exactly k batches and k+1 model calls, makes no finalization call, and
\* returns the text of response k+1.
C6_PreK(k) ==
    /\ Len(replies) >= k + 1
    /\ \A i \in 1..(k + 1) : ~replies[i].raised
    /\ \A i \in 1..k : RequestsTools(replies[i].response)
    /\ replies[k + 1].response.stop_reason # "tool_use"

C6_NaturalStop ==
    \A k \in 1..max_tool_rounds :
        C6_PreK(k) =>
            /\ Len(calls) = k + 1
            /\ Len(batches) = k
            /\ CallsOfKind("final") = {}
            /\ pc \in {"loop", "returned"}
            /\ (Done /\ HasText(replies[k + 1].response))
                => result = FirstText(replies[k + 1].response)

C6_Witness ==
    /\ C6_PreK(2)
    /\ max_tool_rounds = 2
    /\ pc = "returned"
    /\ Len(execs) >= 2
    /\ HasText(replies[3].response)
    /\ result = FirstText(replies[3].response)

\* the initial response is textual: it came, and its first item is a text item
InitialTextual ==
    /\ Len(replies) >= 1
    /\ ~replies[1].raised
    /\ Len(replies[1].response.content) > 0
    /\ replies[1].response.content[1].type = "text"

\* what C7 says of a query without tools
C7_SingleCall ==
    /\ Len(calls) <= 1
    /\ execs = <<>>
    /\ Done => Len(calls) = 1
    /\ (Done /\ InitialTextual)
        => pc = "returned" /\ result = replies[1].response.content[1].text

\* the initial call carries no tool definitions and no tool-choice policy
C7_InitialCallBare ==
    Len(calls) >= 1 =>
        /\ "tools" \notin DOMAIN calls[1].params
        /\ "tool_choice" \notin DOMAIN calls[1].params

\* the initial call carries exactly the supplied list, with the automatic policy
C7_InitialCallTools ==
    Len(calls) >= 1 =>
        /\ "tools" \in DOMAIN calls[1].params
        /\ calls[1].params.tools = tools
        /\ "tool_choice" \in DOMAIN calls[1].params
        /\ calls[1].params.tool_choice = [type |-> "auto"]

\* C7 as stated: without tools exactly one model call is made, it carries
\* neither tool definitions nor a tool-choice policy, no tool is executed and
\* the model's direct text is returned; with a non-empty tool list the initial
\* call carries exactly that list with the automatic tool-choice policy.
\* (Violated: with a tool_manager and no tools, a response with stop reason
\* tool_use enters the tool loop.)
C7_Original ==
    /\ (pc # "idle" /\ ~Truthy(tools)) => (C7_InitialCallBare /\ C7_SingleCall)
    /\ (pc # "idle" /\ Truthy(tools)) => C7_InitialCallTools

\* the tool loop is entered: a tool_manager is there and the initial response
\* has stop reason tool_use
C7_LoopEntered ==
    /\ Truthy(tool_manager)
    /\ Len(replies) >= 1
    /\ ~replies[1].raised
    /\ replies[1].response.stop_reason = "tool_use"

\* C7 (amended): without tools the initial call carries neither tool
\* definitions nor a tool-choice policy and, unless a tool_manager is supplied
\* and the initial response has stop reason tool_use, exactly one model call
\* is made, no tool is executed and the model's direct text is returned; with
\* a non-empty tool list the initial call carries exactly that list with the
\* automatic tool-choice policy.
C7_DirectAnswer ==
    /\ (pc # "idle" /\ ~Truthy(tools)) => C7_InitialCallBare
    /\ (pc # "idle" /\ ~Truthy(tools) /\ ~C7_LoopEntered) => C7_SingleCall
    /\ (pc # "idle" /\ Truthy(tools)) => C7_InitialCallTools

C7_Witness ==
    /\ pc = "returned"
    /\ ~Truthy(tools)
    /\ Len(calls) = 1
    /\ InitialTextual
    /\ result = replies[1].response.content[1].text

\* a user turn that carries tool results
IsResultTurn(m) == m.role = "user" /\ IsList(m.content)

\* the call ids of the tool_use blocks of a content list
IdsOf(content) == {ToolUses(content)[j].id : j \in 1..Len(ToolUses(content))}

\* the call ids requested by the assistant turns of msgs other than turn k
OtherIds(msgs, k) ==
    UNION {IdsOf(msgs[n].content.list) :
              n \in {x \in 1..Len(msgs) : x # k /\ msgs[x].role = "assistant"}}

\* every result turn of msgs answers the assistant turn right before it
TurnPairsOK(msgs) ==
    \A i \in 1..Len(msgs) :
        IsResultTurn(msgs[i]) =>
            /\ i > 1
            /\ msgs[i - 1].role = "assistant"
            /\ LET reqs == ToolUses(msgs[i - 1].content.list)
                   res == msgs[i].content.list
               IN  /\ Len(reqs) >= 1
                   /\ Len(res) = Len(reqs)
                   /\ \A j \in 1..Len(res) :
                        /\ res[j].type = "tool_result"
                        /\ res[j].tool_use_id = reqs[j].id
                        /\ \A k \in 1..Len(reqs) :
                            res[j].tool_use_id = reqs[k].id => k = j
                        /\ res[j].tool_use_id \notin OtherIds(msgs, i - 1)

\* C8: in every turn sequence sent to the model, each tool-result user turn
\* directly follows an assistant tool-request turn and its results match that
\* turn's requests one to one: same number, same order, each carrying the
\* call id of exactly one request of that turn and of no other turn.
C8_ResultsMatchRequests ==
    /\ \A c \in 1..Len(calls) : TurnPairsOK(calls[c].params.messages)
    /\ TurnPairsOK(messages)

C8_Witness ==
    \E c \in 1..Len(calls) :
        LET msgs == calls[c].params.messages IN
        /\ Len(msgs) = 5
        /\ IsResultTurn(msgs[3])
        /\ Len(msgs[3].content.list) = 2
        /\ IsResultTurn(msgs[5])

\* the execute_tool calls of round r, in the order they were made
ExecsOfRound(r) == SelectSeq(execs, LAMBDA e : e.round = r)

\* C9: a tool execution that raises does not abort the round: its entry is
\* marked is_error with a diagnostic, the other requests of the batch are
\* executed and get unmarked entries, the batch has one entry per request, and
\* the next model call is made with those results.
C9_ToolFaultInBand ==
    \A r \in 1..round_count :
        Len(messages) >= 2 * r + 1 =>
            LET reqs == ToolUses(messages[2 * r].content.list)
                res == messages[2 * r + 1].content.list
                ex == ExecsOfRound(r)
            IN  /\ Len(ex) = Len(reqs)
                /\ Len(res) = Len(reqs)
                /\ \A j \in 1..Len(reqs) :
                    /\ ex[j].id = reqs[j].id
                    /\ res[j].tool_use_id = reqs[j].id
                    /\ IF ex[j].raised
                       THEN /\ "is_error" \in DOMAIN res[j]
                            /\ res[j].is_error = TRUE
                            /\ res[j].content = "Tool execution error: " \o ex[j].value
                       ELSE /\ "is_error" \notin DOMAIN res[j]
                            /\ res[j].content = ex[j].value
                /\ (r < round_count \/ pc # "next_call") =>
                    /\ Len(calls) >= r + 1
                    /\ calls[r + 1].kind = "round"
                    /\ calls[r + 1].params.messages = SubSeq(messages, 1, 2 * r + 1)

C9_Witness ==
    /\ Len(execs) >= 2
    /\ execs[1].round = 1 /\ execs[1].raised
    /\ execs[2].round = 1 /\ ~execs[2].raised
    /\ Len(calls) >= 2
    /\ Len(calls[2].params.messages[3].content.list) = 2

\* the latest batch is over and produced no result
ZeroResultBatch ==
    /\ round_count >= 1
    /\ tool_results = <<>>
    /\ ~(pc = "exec" /\ idx <= Len(current_response.content))

\* C10: a batch that produces zero results makes the query return exactly
\* "Tool execution failed. Please try again." at once: no result turn is
\* appended and no model call of any kind follows.
C10_BatchFault ==
    ZeroResultBatch =>
        /\ pc \in {"exec", "returned"}
        /\ pc = "returned" => result = "Tool execution failed. Please try again."
        /\ Len(messages) = 2 * round_count
        /\ messages[Len(messages)].role = "assistant"
        /\ Len(calls) = round_count
        /\ CallsOfKind("final") = {}

C10_Witness ==
    /\ ZeroResultBatch
    /\ round_count = 2
    /\ pc = "returned"
    /\ result = "Tool execution failed. Please try again."

\* C11: if the model call made after the n-th batch fails, the query returns
\* exactly "Error in tool execution round <n>: <detail>", n being the number
\* of batches run so far (1 <= n <= max_tool_rounds), and ends there.
C11_RoundError ==
    \A i \in CallsOfKind("round") :
        replies[i].raised =>
            /\ pc = "returned"
            /\ i = Len(calls)
            /\ Len(batches) = i - 1
            /\ i - 1 \in 1..max_tool_rounds
            /\ result = "Error in tool execution round " \o ToString(Len(batches))
                            \o ": " \o replies[i].detail

C11_Witness ==
    /\ Len(calls) = 3
    /\ calls[3].kind = "round"
    /\ replies[3].raised
    /\ result = "Error in tool execution round 2: timeout"

\* C12: if the finalization call fails the query returns exactly "Error in
\* final response generation: <detail>"; otherwise what it returns is taken
\* from the finalization response and from no earlier response.
C12_FinalOutput ==
    \A i \in CallsOfKind("final") :
        /\ pc = "returned"
        /\ IF replies[i].raised
           THEN result = "Error in final response generation: " \o replies[i].detail
           ELSE IF HasText(replies[i].response)
                THEN result = FirstText(replies[i].response)
                ELSE /\ result \in {OnlyToolUseFallback, EmptyContentFallback}
                     /\ \A j \in 1..(i - 1) :
                            HasText(replies[j].response)
                                => result # FirstText(replies[j].response)

C12_Witness ==
    /\ CallsOfKind("final") # {}
    /\ replies[Len(replies)].raised
    /\ max_tool_rounds >= 1
    /\ result = "Error in final response generation: timeout"

\* C13: no retries: once a model call has failed the query is over, with no
\* further model call and no further tool execution; no model call is made
\* twice.
C13_NoRetry ==
    /\ \A i \in 1..Len(replies) :
        replies[i].raised =>
            /\ i = Len(calls)
            /\ Done
            /\ \A j \in 1..Len(execs) : execs[j].calls < i
    /\ \A i \in 1..Len(calls) : \A j \in 1..Len(calls) :
        i < j => calls[i].params.messages # calls[j].params.messages

C13_Witness ==
    /\ Len(calls) = 2
    /\ replies[2].raised
    /\ calls[2].kind = "round"
    /\ Len(execs) >= 1
    /\ pc = "returned"

\* C14: the conversation history never enters the turn sequence: the initial
\* call's turns are exactly one user turn with the raw query; a supplied
\* history is appended to the system instructions, and without history the
\* system instructions are exactly the fixed policy text.
C14_HistoryInSystem ==
    Len(calls) >= 1 =>
        /\ calls[1].params.messages = <<[role |-> "user", content |-> [str |-> query]]>>
        /\ calls[1].params.system =
            IF IsNone(conversation_history) \/ conversation_history.str = ""
            THEN "SYSTEM_PROMPT"
            ELSE "SYSTEM_PROMPT" \o "\n\nPrevious conversation:\n"
                    \o conversation_history.str
        /\ \A c \in 1..Len(calls) : \A t \in 1..Len(calls[c].params.messages) :
            IsStr(calls[c].params.messages[t].content)
                => calls[c].params.messages[t].content.str \in {query, SynthesisPrompt}

C14_Witness ==
    /\ Len(calls) >= 2
    /\ conversation_history = [str |-> "User: Hello"]
    /\ calls[1].params.system = "SYSTEM_PROMPT\n\nPrevious conversation:\nUser: Hello"
    /\ Len(calls[1].params.messages) = 1

\* the initial response, once the initial call has returned one
InitialAnswered == Len(replies) >= 1 /\ ~replies[1].raised
InitialResponse == replies[1].response

\* C15: when the initial response requests no tool (its stop reason is not
\* tool_use and it has no tool invocation item), the query returns after
\* that one call with the text of the response's first item, or with the
\* fixed fallback when the response has no content; it does not raise.
C15_DirectText ==
    (/\ InitialAnswered
     /\ InitialResponse.stop_reason # "tool_use"
     /\ ToolUses(InitialResponse.content) = <<>>) =>
        /\ pc = "returned"
        /\ Len(calls) = 1
        /\ execs = <<>>
        /\ result = IF InitialResponse.content # <<>>
                    THEN InitialResponse.content[1].text
                    ELSE "No response generated"

C15_Witness ==
    /\ InitialAnswered
    /\ InitialResponse.stop_reason # "tool_use"
    /\ InitialResponse.content = <<>>
    /\ Truthy(tools)
    /\ Truthy(tool_manager)
    /\ result = "No response generated"

\* C16: when the initial response has stop reason tool_use and no
\* tool_manager was supplied, no tool is executed, no further model call is
\* made, and a string is returned (the response's first text, or the
\* fallback) whatever the content of the response.
C16_NoRegistryReturnsString ==
    (/\ InitialAnswered
     /\ InitialResponse.stop_reason = "tool_use"
     /\ ~Truthy(tool_manager)) =>
        /\ execs = <<>>
        /\ Len(calls) = 1
        /\ pc = "returned"
        /\ result = IF HasText(InitialResponse)
                    THEN FirstText(InitialResponse)
                    ELSE "No response generated"

\* C17: a query that returns after at least one tool round, its last model
\* call having answered and its last batch having produced results, returns
\* the text of the first text item of the last response; when that response
\* has no text item it returns one of the two fixed strings of
\* _extract_response_text, neither of which is the direct path's fallback.
C17_AnswerAfterRounds ==
    (/\ pc = "returned"
     /\ round_count >= 1
     /\ ~replies[Len(replies)].raised
     /\ ~ZeroResultBatch) =>
        LET last == replies[Len(replies)].response
        IN  /\ HasText(last) => result = FirstText(last)
            /\ (~HasText(last) /\ last.content # <<>>) =>
                    result = "I was able to search for information but encountered an issue generating the final response. Please try rephrasing your question."
            /\ last.content = <<>> =>
                    result = "I encountered an issue generating a response. Please try rephrasing your question."
            /\ ~HasText(last) => result # "No response generated"

C17_Witness ==
    /\ pc = "returned"
    /\ round_count >= 1
    /\ ~replies[Len(replies)].raised
    /\ ~ZeroResultBatch
    /\ Len(replies[Len(replies)].response.content) = 2
    /\ replies[Len(replies)].response.content[1].type = "tool_use"
    /\ replies[Len(replies)].response.content[2].type = "text"
    /\ result = replies[Len(replies)].response.content[2].text

\* --------------------------------------------------- claims, the registry
\* the registrations of a name before operation i of the registry log
RegisteredBefore(i, name) ==
    {j \in 1..(i - 1) : reg_ops[j].op = "register" /\ reg_ops[j].tool.name = name}

Latest(S) == CHOOSE x \in S : \A y \in S : y <= x

OpsOf(o) == {i \in 1..Len(reg_ops) : reg_ops[i].op = o}

\* C18: execute_tool with a registered name calls exactly one tool, the
\* one registered last under that name, and returns what it returned; with
\* an unregistered name it calls no tool and returns "Tool '<name>' not found".
C18_ExecuteDelegates ==
    \A i \in OpsOf("execute") :
        LET e == reg_ops[i]
            regs == RegisteredBefore(i, e.name)
        IN  IF regs = {}
            THEN /\ e.delegated = <<>>
                 /\ e.result = "Tool '" \o e.name \o "' not found"
            ELSE /\ Len(e.delegated) = 1
                 /\ e.delegated[1].tool = reg_ops[Latest(regs)].tool
                 /\ e.result = e.delegated[1].returned

C18_Witness ==
    /\ \E i \in OpsOf("execute") :
        /\ reg_ops[i].name = "search_course_content"
        /\ Cardinality(RegisteredBefore(i, "search_course_content")) = 2
        /\ reg_ops[i].delegated[1].tool.inst = 2
    /\ \E i \in OpsOf("execute") :
        reg_ops[i].result = "Tool 'nonexistent_tool' not found"

\* C19: two get_last_sources calls with nothing but get_last_sources calls
\* between them return the same list, and a get_last_sources call that
\* follows a reset_sources call, with no execution or registration between
\* them, returns the empty list.
C19_SourceListIdempotent ==
    /\ \A i \in OpsOf("collect") : \A j \in OpsOf("collect") :
        (i < j /\ \A k \in (i + 1)..(j - 1) : reg_ops[k].op = "collect")
            => reg_ops[i].value = reg_ops[j].value
    /\ \A i \in OpsOf("clear") : \A j \in OpsOf("collect") :
        (i < j /\ \A k \in (i + 1)..(j - 1) : reg_ops[k].op \in {"collect", "clear"})
            => reg_ops[j].value = <<>>

C19_Witness ==
    \E i \in OpsOf("collect") :
        /\ reg_ops[i].value # <<>>
        /\ i + 2 <= Len(reg_ops)
        /\ reg_ops[i + 1].op = "clear"
        /\ reg_ops[i + 2].op = "collect"
        /\ reg_ops[i + 2].value = <<>>

\* C20: once a batch has executed a tool, the source list of the registry
\* holds only Sources recorded during that batch.
C20_OnlyLatestBatch ==
    batch_execs >= 1 =>
        \A i \in 1..Len(GetLastSources(reg_tools, last_sources)) :
            GetLastSources(reg_tools, last_sources)[i].batch = batch

\* ------------------------------------------------- claims, the engine (2)
\* batch r of the query is over
BatchOver(r) ==
    \/ r < round_count
    \/ pc # "exec"
    \/ idx > Len(current_response.content)

\* C24: the executions of a batch are the tool_use items of the response
\* that started it, in the order of the response and each once; the i-th
\* entry of the result turn carries the call id of the i-th request; every
\* execution of round r happens after exactly r model calls, all of which
\* have returned.
C24_InOrderExecution ==
    /\ \A j \in 1..Len(execs) :
        /\ execs[j].calls = execs[j].round
        /\ Len(replies) >= execs[j].round
        /\ ~replies[execs[j].round].raised
        /\ \A k \in 1..Len(execs) : j < k => execs[j].round <= execs[k].round
    /\ \A r \in 1..round_count :
        LET req == ToolUses(replies[r].response.content)
            ran == ExecsOfRound(r)
        IN  /\ Len(ran) <= Len(req)
            /\ \A i \in 1..Len(ran) : ran[i].id = req[i].id /\ ran[i].name = req[i].name
            /\ BatchOver(r) => Len(ran) = Len(req)
    /\ \A c \in CallsOfKind("round") :
        LET req == ToolUses(replies[c - 1].response.content)
            res == calls[c].params.messages[2 * (c - 1) + 1].content.list
        IN  /\ Len(res) = Len(req)
            /\ \A i \in 1..Len(res) : res[i].tool_use_id = req[i].id

C24_Witness ==
    /\ Len(calls) >= 2
    /\ calls[2].kind = "round"
    /\ Len(ExecsOfRound(1)) = 2
    /\ Len(replies[1].response.content) = 3
    /\ replies[1].response.content[2].type = "text"
    /\ ExecsOfRound(1)[2].id = replies[1].response.content[3].id
    /\ round_count = 2
    /\ Len(ExecsOfRound(2)) = 1

\* the calls of the query other than the finalization call
ToolEnabledCalls == {c \in 1..Len(calls) : calls[c].kind # "final"}

\* two calls carry the same tool parameters
SameToolParams(p, q) ==
    /\ ("tools" \in DOMAIN p) = ("tools" \in DOMAIN q)
    /\ ("tool_choice" \in DOMAIN p) = ("tool_choice" \in DOMAIN q)
    /\ "tools" \in DOMAIN p => p.tools = q.tools
    /\ "tool_choice" \in DOMAIN p => p.tool_choice = q.tool_choice

\* C25 as stated: every call carries the system instructions of the initial
\* call, and every call other than the finalization call carries the tool
\* definitions and the tool-choice policy of the initial call.
C25_Original ==
    \A c \in 1..Len(calls) :
        /\ calls[c].params.system = calls[1].params.system
        /\ c \in ToolEnabledCalls => SameToolParams(calls[c].params, calls[1].params)

\* C25 (amended): every call carries the system instructions of the
\* initial call; when a non-empty tool list was supplied every call other
\* than the finalization call carries that list with the automatic policy;
\* when none was supplied the initial call carries neither and every call
\* after a batch carries an empty tool list with the automatic policy.
C25_SameSystemAndTools ==
    \A c \in 1..Len(calls) :
        /\ calls[c].params.system = calls[1].params.system
        /\ (c \in ToolEnabledCalls /\ Truthy(tools)) =>
                /\ "tools" \in DOMAIN calls[c].params
                /\ calls[c].params.tools = tools
                /\ "tool_choice" \in DOMAIN calls[c].params
                /\ calls[c].params.tool_choice = [type |-> "auto"]
        /\ (c \in ToolEnabledCalls /\ ~Truthy(tools)) =>
                IF calls[c].kind = "initial"
                THEN /\ "tools" \notin DOMAIN calls[c].params
                     /\ "tool_choice" \notin DOMAIN calls[c].params
                ELSE /\ "tools" \in DOMAIN calls[c].params
                     /\ calls[c].params.tools = [list |-> <<>>]
                     /\ "tool_choice" \in DOMAIN calls[c].params
                     /\ calls[c].params.tool_choice = [type |-> "auto"]

C25_Witness ==
    /\ Len(calls) = 3
    /\ calls[2].kind = "round"
    /\ calls[3].kind = "final"
    /\ Truthy(tools)
    /\ conversation_history = [str |-> "User: Hello"]
    /\ calls[3].params.system = calls[1].params.system
    /\ calls[2].params.tools = tools

\* s is a prefix of t
IsPrefix(s, t) == Len(s) <= Len(t) /\ \A i \in 1..Len(s) : s[i] = t[i]

\* C26: the turn sequence of each call extends the one of the call before
\* it: a call after a batch adds the assistant turn with the content of the
\* previous response, verbatim, and one user turn with the results; the
\* finalization call adds one user turn with the synthesis instruction.
C26_AppendOnly ==
    \A c \in 2..Len(calls) :
        LET prev == calls[c - 1].params.messages
            cur == calls[c].params.messages
        IN  /\ IsPrefix(prev, cur)
            /\ calls[c].kind = "round" =>
                /\ Len(cur) = Len(prev) + 2
                /\ cur[Len(prev) + 1] =
                      [role |-> "assistant",
                       content |-> [list |-> replies[c - 1].response.content]]
                /\ cur[Len(prev) + 2].role = "user"
                /\ IsList(cur[Len(prev) + 2].content)
            /\ calls[c].kind = "final" =>
                /\ Len(cur) = Len(prev) + 1
                /\ cur[Len(cur)] =
                      [role |-> "user",
                       content |-> [str |-> "Please provide a comprehensive answer based on the search results you found above."]]

C26_Witness ==
    /\ Len(calls) = 3
    /\ calls[2].kind = "round"
    /\ calls[3].kind = "final"
    /\ Len(calls[1].params.messages) = 1
    /\ Len(calls[2].params.messages) = 3
    /\ Len(calls[3].params.messages) = 4
    /\ Len(replies[1].response.content) = 2

\* C29: model calls and tool batches alternate, beginning with a model
\* call: the i-th batch is started after the i-th call, whose response has
\* stop reason tool_use, and before any further call; a call after a batch
\* is made only when that batch has executed at least one tool and handed
\* over at least one result.
C29_ProtocolOrder ==
    /\ Len(batches) <= Cardinality(ToolEnabledCalls)
    /\ Cardinality(ToolEnabledCalls) <= Len(batches) + 1
    /\ \A i \in 1..Len(batches) :
        /\ batches[i] = i - 1
        /\ calls[i].kind # "final"
        /\ ~replies[i].raised
        /\ replies[i].response.stop_reason = "tool_use"
    /\ pc = "exec" => Len(calls) = Len(batches)
    /\ \A j \in 1..Len(execs) : execs[j].round <= Len(batches)
    /\ \A c \in CallsOfKind("round") :
        /\ c - 1 <= Len(batches)
        /\ Len(ExecsOfRound(c - 1)) >= 1
        /\ Len(calls[c].params.messages[Len(calls[c].params.messages)].content.list) >= 1
        /\ \A d \in 1..(c - 1) : calls[d].kind # "final"

C29_Witness ==
    /\ Len(batches) = 2
    /\ Len(calls) = 3
    /\ calls[2].kind = "round"
    /\ calls[3].kind = "round"
    /\ pc = "returned"
    /\ NoCallFailed

\* C30: every call other than the finalization call is sent 2r+1 turns,
\* r being the number of batches started before it (the batch count when
\* the call has just returned into the loop), with user turns at the odd
\* and assistant turns at the even positions.
C30_AlternatingTurns ==
    \A c \in ToolEnabledCalls :
        LET msgs == calls[c].params.messages
            r == c - 1
        IN  /\ Len(msgs) = 2 * r + 1
            /\ \A i \in 1..Len(msgs) :
                msgs[i].role = IF i % 2 = 1 THEN "user" ELSE "assistant"
            /\ msgs[1].role = "user"
            /\ msgs[Len(msgs)].role = "user"
            /\ r <= Len(batches)
            /\ c = Len(calls) => Len(batches) \in {r, r + 1}
            /\ (c = Len(calls) /\ pc = "loop") => Len(batches) = r

C30_Witness ==
    /\ Len(calls) = 3
    /\ calls[3].kind = "round"
    /\ Truthy(tools)
    /\ "tools" \in DOMAIN calls[3].params
    /\ Len(calls[3].params.messages) = 5
    /\ Len(batches) = 2

\* ------------------------------------------------------ claims, the tools
\* the content search of the call has returned matches
SearchMatched ==
    /\ t_pc = "done"
    /\ t_call.tool = "search_course_content"
    /\ t_results # <<>>

\* the label a result is shown under
ShownLabel(r) ==
    IF IsNone(r.lesson_number)
    THEN r.course_title
    ELSE r.course_title \o " - Lesson " \o ToString(r.lesson_number.num)

\* the output that shows the first n of the results, in order
RECURSIVE ShownBlocks(_, _)
ShownBlocks(rs, n) ==
    IF n = 0 THEN ""
    ELSE (IF n = 1 THEN "" ELSE ShownBlocks(rs, n - 1) \o "\n\n")
            \o "[" \o ShownLabel(rs[n]) \o "]\n" \o rs[n].text

\* C21: a content search that returned N > 0 matches records exactly N
\* Sources, the i-th being the label of the i-th match (with its link when
\* there is one), and returns exactly the N labeled blocks of the matches,
\* in the order of the matches.
C21_SourcePerResult ==
    SearchMatched =>
        /\ Len(t_sources) = Len(t_results)
        /\ \A i \in 1..Len(t_results) :
            t_sources[i] = IF IsStr(t_results[i].link)
                           THEN ShownLabel(t_results[i]) \o "|" \o t_results[i].link.str
                           ELSE ShownLabel(t_results[i])
        /\ t_output = [str |-> ShownBlocks(t_results, Len(t_results))]

C21_Witness ==
    /\ SearchMatched
    /\ Len(t_results) = 3
    /\ t_sources[1] = "Test Course - Lesson 1|https://example.com/lesson1"
    /\ t_sources[2] = "Test Course - Lesson 1|https://example.com/lesson1"
    /\ t_sources[3] = "Test Course"
    /\ t_output = [str |-> "[Test Course - Lesson 1]\nTest content 1\n\n[Test Course - Lesson 1]\nTest content 2\n\n[Test Course]\nTest content 3"]

\* C22: when the course name of a call is not resolved, the search tool and
\* the outline tool return exactly "No course found matching '<name>'.";
\* the index is asked for no content and no outline, and no Source is recorded.
C22_CourseNotFound ==
    (/\ t_store_ops # <<>>
     /\ t_store_ops[1] = "resolve_course_name"
     /\ IsNone(t_title)) =>
        /\ t_pc = "done"
        /\ t_output = [str |-> "No course found matching '" \o t_call.course_name.str \o "'."]
        /\ t_store_ops = <<"resolve_course_name">>
        /\ t_sources = <<>>

C22_Witness ==
    /\ t_pc = "done"
    /\ t_call.tool = "get_course_outline"
    /\ t_store_ops = <<"resolve_course_name">>
    /\ t_output = [str |-> "No course found matching 'Nonexistent Course'."]

\* ----------------------------------------------- claims, the orchestrator
\* the registry operations of one query
OpsOfQuery(o, q) == {i \in OpsOf(o) : reg_ops[i].query = q}

\* the executions of a query that recorded Sources
Recording(q) == {i \in OpsOfQuery("execute", q) : reg_ops[i].n > 0}

\* the operations that recorded the Sources of a list
Origins(srcs) == {srcs[x].op : x \in 1..Len(srcs)}

\* C23: with queries executed one after the other, a completed query has
\* read the source list exactly once, after all its tool executions, and
\* cleared it exactly once after that; the Sources read by a query are
\* those recorded by its own executions; when no query is running every
\* buffer is empty.
C23_ReadOnceThenClear ==
    /\ \A a \in 1..Len(orch.answers) :
        LET q == orch.answers[a].query
            reads == OpsOfQuery("collect", q)
            clears == OpsOfQuery("clear", q)
        IN  /\ Cardinality(reads) = 1
            /\ Cardinality(clears) = 1
            /\ \A r \in reads : \A c \in clears :
                /\ r < c
                /\ \A e \in OpsOfQuery("execute", q) : e < r
                /\ orch.answers[a].sources = reg_ops[r].value
    /\ \A r \in OpsOf("collect") :
        /\ Origins(reg_ops[r].value) = Recording(reg_ops[r].query)
        /\ Cardinality(OpsOfQuery("collect", reg_ops[r].query)) = 1
    /\ (\A c \in Callers : orch.pc[c] = "idle") =>
            \A t \in ToolInstances : last_sources[t] = <<>>

C23_Witness ==
    /\ Len(orch.answers) = 1
    /\ orch.answers[1].query = 1
    /\ orch.answers[1].sources # <<>>
    /\ \E r \in OpsOfQuery("collect", 2) :
        /\ reg_ops[r].value # <<>>
        /\ Origins(reg_ops[r].value) = Recording(2)

\* the last clear before operation j of the registry log, 0 when there is none
LastClearBefore(j) ==
    IF \E i \in OpsOf("clear") : i < j
    THEN Latest({i \in OpsOf("clear") : i < j})
    ELSE 0

\* C28: on a registry shared by interleaved queries a caller reads exactly
\* the Sources recorded, by any query, since the last clear of any query:
\* the list may hold Sources of another query and may lack its own.
C28_SharedBuffer ==
    \A r \in OpsOf("collect") :
        Origins(reg_ops[r].value) =
            {i \in OpsOf("execute") :
                /\ LastClearBefore(r) < i
                /\ i < r
                /\ reg_ops[i].n > 0}

C28_Witness ==
    /\ \E r \in OpsOf("collect") :
        \E i \in Origins(reg_ops[r].value) : reg_ops[i].query # reg_ops[r].query
    /\ \E r \in OpsOf("collect") :
        /\ Recording(reg_ops[r].query) # {}
        /\ \A i \in Recording(reg_ops[r].query) : i < r
        /\ reg_ops[r].value = <<>>

\* ------------------------------------------- one engine, several queries
\* generate_response called by several threads on one AIGenerator: every
\* call has its own local variables, the object is shared

\* the arguments of the k-th query
QueryText(k) == "query " \o ToString(k)
HistoryOf(k) == Str("User: question " \o ToString(k))

\* the local variables of a call of generate_response that has not started
\* (calls and batches: logs of its model calls and of its round counter)
FreshFrame ==
    [pc |-> "idle", id |-> 0, api_params |-> <<>>, messages |-> <<>>,
     current_response |-> NoResponse, round_count |-> 0,
     final_messages |-> <<>>, result |-> "",
     calls |-> <<>>, batches |-> <<>>]

\* generate_response: api_params, built from the object's base_params
ApiParamsOn(self, q, h, t) ==
    LET base == Merge(self.base_params,
                      [messages |-> <<[role |-> "user", content |-> Str(q)]>>,
                       system |-> SystemContent(h)])
    IN  IF Truthy(t)
        THEN Merge(base, [tools |-> t, tool_choice |-> ToolChoiceAuto])
        ELSE base

\* next_params, built from the object's base_params
NextParamsOn(self, msgs, base) ==
    Merge(self.base_params,
          [messages |-> msgs,
           system |-> base.system,
           tools |-> IF "tools" \in DOMAIN base THEN base.tools ELSE List(<<>>),
           tool_choice |-> ToolChoiceAuto])

\* final_params, built from the object's base_params
FinalParamsOn(self, fmsgs, base) ==
    Merge(self.base_params, [messages |-> fmsgs, system |-> base.system])

\* the responses the model gives to the calls of the shared engine: a text
\* that ends the turn, or the request of one tool
SharedResponses(c) ==
    {MkResponse("end_turn", <<"text">>, c), MkResponse("tool_use", <<"tool_use">>, c)}

\* the number of the response to the next model call of a query
ResponseNo(f) == 10 * f.id + Len(f.calls) + 1

\* log of one model call of the shared engine
SharedCall(kind, params, reply) ==
    [kind |-> kind, params |-> params, reply |-> reply]

\* _execute_tool_round: the results of a whole batch
BatchResults(resp, fails, e) ==
    LET uses == SelectSeq(resp.content, LAMBDA b : b.type = "tool_use")
    IN  [i \in 1..Len(uses) |->
            IF fails THEN ToolResultError(uses[i], e) ELSE ToolResultOk(uses[i], ToolOutput)]

\* the thread is in no call of generate_response
Free(c) == sh.frames[c].pc \in {"idle", "returned", "raised", "abandoned"}

\* mutant: the turn sequence of the thread's previous query is carried on
sh_generate_response_resuming(c) ==
    /\ Free(c)
    /\ sh.started < MaxQueries
    /\ LET k == sh.started + 1
           p == ApiParamsOn(engine, QueryText(k), HistoryOf(k), List(ToolDefs))
       IN  sh' = [sh EXCEPT !.started = k,
                            !.frames[c] = [FreshFrame EXCEPT
                                !.pc = "initial_call",
                                !.id = k,
                                !.api_params = [p EXCEPT !.messages =
                                    sh.frames[c].messages \o p.messages]]]
    /\ UNCHANGED engine
    /\ UNCHANGED outside_shared

\* generate_response, up to the initial model call
sh_generate_response(c) ==
    /\ Free(c)
    /\ sh.started < MaxQueries
    /\ LET k == sh.started + 1
       IN  sh' = [sh EXCEPT !.started = k,
                            !.frames[c] = [FreshFrame EXCEPT
                                !.pc = "initial_call",
                                !.id = k,
                                !.api_params = ApiParamsOn(engine, QueryText(k),
                                                           HistoryOf(k), List(ToolDefs))]]
    /\ UNCHANGED engine
    /\ UNCHANGED outside_shared

\* the initial model call returns
sh_initial_returns(c) ==
    LET f == sh.frames[c] IN
    /\ f.pc = "initial_call"
    /\ \E resp \in SharedResponses(ResponseNo(f)) :
        LET call == SharedCall("initial", f.api_params, Returned(resp))
        IN  sh' = [sh EXCEPT !.frames[c] =
                IF EntersToolLoop(resp, ToolManagerObj)
                THEN [f EXCEPT !.calls = Append(@, call),
                               !.current_response = resp,
                               !.messages = f.api_params.messages,
                               !.round_count = 0,
                               !.pc = "loop"]
                ELSE [f EXCEPT !.calls = Append(@, call),
                               !.current_response = resp,
                               !.pc = DirectReturn(resp).kind,
                               !.result = DirectReturn(resp).value]]
    /\ UNCHANGED engine
    /\ UNCHANGED outside_shared

\* the initial model call raises
sh_initial_raises(c) ==
    LET f == sh.frames[c] IN
    /\ f.pc = "initial_call"
    /\ \E e \in ErrorDetails :
        sh' = [sh EXCEPT !.frames[c] = [f EXCEPT
            !.calls = Append(@, SharedCall("initial", f.api_params, Raised(e))),
            !.pc = "raised",
            !.result = e]]
    /\ UNCHANGED engine
    /\ UNCHANGED outside_shared

\* the while condition holds: a tool batch is started
sh_begin_round(c) ==
    LET f == sh.frames[c] IN
    /\ f.pc = "loop"
    /\ ContinueLoop(f.current_response, f.round_count, engine.max_tool_rounds, ToolManagerObj)
    /\ sh' = [sh EXCEPT !.frames[c] = [f EXCEPT
                !.batches = Append(@, f.round_count),
                !.round_count = @ + 1,
                !.messages = Append(@, [role |-> "assistant",
                                        content |-> List(f.current_response.content)]),
                !.pc = "exec"]]
    /\ UNCHANGED engine
    /\ UNCHANGED outside_shared

\* _execute_tool_round and what follows it: the fixed failure string when
\* the batch has no result, else the results become one user turn
sh_execute_round(c) ==
    LET f == sh.frames[c] IN
    /\ f.pc = "exec"
    /\ \E fails \in BOOLEAN, e \in ErrorDetails :
        LET tr == BatchResults(f.current_response, fails, e)
        IN  sh' = [sh EXCEPT !.frames[c] =
                IF NoResults(tr)
                THEN [f EXCEPT !.pc = "returned", !.result = ToolExecutionFailed]
                ELSE [f EXCEPT !.pc = "next_call",
                               !.messages = Append(@, [role |-> "user",
                                                       content |-> List(tr)])]]
    /\ UNCHANGED engine
    /\ UNCHANGED outside_shared

\* the model call after a tool batch returns
sh_next_returns(c) ==
    LET f == sh.frames[c] IN
    /\ f.pc = "next_call"
    /\ \E resp \in SharedResponses(ResponseNo(f)) :
        LET call == SharedCall("round",
                               NextParamsOn(engine, f.messages, f.api_params),
                               Returned(resp))
        IN  sh' = [sh EXCEPT !.frames[c] = [f EXCEPT
                !.calls = Append(@, call),
                !.current_response = resp,
                !.pc = "loop"]]
    /\ UNCHANGED engine
    /\ UNCHANGED outside_shared

\* the model call after a tool batch raises
sh_next_raises(c) ==
    LET f == sh.frames[c] IN
    /\ f.pc = "next_call"
    /\ \E e \in ErrorDetails :
        sh' = [sh EXCEPT !.frames[c] = [f EXCEPT
            !.calls = Append(@, SharedCall("round",
                                           NextParamsOn(engine, f.messages, f.api_params),
                                           Raised(e))),
            !.pc = "returned",
            !.result = RoundErrorText(f.round_count, e)]]
    /\ UNCHANGED engine
    /\ UNCHANGED outside_shared

\* the loop is left with tools still requested
sh_finalize(c) ==
    LET f == sh.frames[c] IN
    /\ f.pc = "loop"
    /\ ~ContinueLoop(f.current_response, f.round_count, engine.max_tool_rounds, ToolManagerObj)
    /\ NeedsFinalization(f.current_response, f.round_count, engine.max_tool_rounds)
    /\ sh' = [sh EXCEPT !.frames[c] = [f EXCEPT
                !.final_messages = FinalMessages(f.messages),
                !.pc = "final_call"]]
    /\ UNCHANGED engine
    /\ UNCHANGED outside_shared

\* the loop is left and no finalization is needed
sh_return_after_loop(c) ==
    LET f == sh.frames[c] IN
    /\ f.pc = "loop"
    /\ ~ContinueLoop(f.current_response, f.round_count, engine.max_tool_rounds, ToolManagerObj)
    /\ ~NeedsFinalization(f.current_response, f.round_count, engine.max_tool_rounds)
    /\ sh' = [sh EXCEPT !.frames[c] = [f EXCEPT
                !.result = ExtractResponseText(f.current_response),
                !.pc = "returned"]]
    /\ UNCHANGED engine
    /\ UNCHANGED outside_shared

\* the finalization call returns
sh_final_returns(c) ==
    LET f == sh.frames[c] IN
    /\ f.pc = "final_call"
    /\ \E resp \in SharedResponses(ResponseNo(f)) :
        LET call == SharedCall("final",
                               FinalParamsOn(engine, f.final_messages, f.api_params),
                               Returned(resp))
        IN  sh' = [sh EXCEPT !.frames[c] = [f EXCEPT
                !.calls = Append(@, call),
                !.current_response = resp,
                !.result = ExtractResponseText(resp),
                !.pc = "returned"]]
    /\ UNCHANGED engine
    /\ UNCHANGED outside_shared

\* the finalization call raises
sh_final_raises(c) ==
    LET f == sh.frames[c] IN
    /\ f.pc = "final_call"
    /\ \E e \in ErrorDetails :
        sh' = [sh EXCEPT !.frames[c] = [f EXCEPT
            !.calls = Append(@, SharedCall("final",
                                           FinalParamsOn(engine, f.final_messages, f.api_params),
                                           Raised(e))),
            !.pc = "returned",
            !.result = FinalErrorText(e)]]
    /\ UNCHANGED engine
    /\ UNCHANGED outside_shared

\* the thread of a query is stopped in the middle of a round: its local
\* variables are gone, the registry and the object stay as they are
sh_abandon(c) ==
    /\ sh.frames[c].pc \in {"exec", "next_call"}
    /\ sh' = [sh EXCEPT !.frames[c].pc = "abandoned"]
    /\ UNCHANGED engine
    /\ UNCHANGED outside_shared

SharedNext ==
    \/ \E c \in Callers : sh_generate_response(c)
    \/ \E c \in Callers : sh_initial_returns(c)
    \/ \E c \in Callers : sh_initial_raises(c)
    \/ \E c \in Callers : sh_begin_round(c)
    \/ \E c \in Callers : sh_execute_round(c)
    \/ \E c \in Callers : sh_next_returns(c)
    \/ \E c \in Callers : sh_next_raises(c)
    \/ \E c \in Callers : sh_finalize(c)
    \/ \E c \in Callers : sh_return_after_loop(c)
    \/ \E c \in Callers : sh_final_returns(c)
    \/ \E c \in Callers : sh_final_raises(c)
    \/ \E c \in Callers : sh_abandon(c)

SharedInit == Init /\ max_tool_rounds = MaxRounds

SharedSpec == SharedInit /\ [][SharedNext]_vars

\* ----------------------------------------------- claims, the shared engine
\* the threads that have called the engine
Called == {c \in Callers : sh.frames[c].id > 0}

\* the responses the query of a frame was given
ResponsesTo(f) ==
    {f.calls[i].reply.response : i \in {j \in 1..Len(f.calls) : ~f.calls[j].reply.raised}}
RequestIdsOf(f) ==
    UNION {{r.content[p].id : p \in {x \in 1..Len(r.content) : r.content[x].type = "tool_use"}}
           : r \in ResponsesTo(f)}

\* a turn that the query of a frame may hold: its query turn, a response it
\* was given, results of tools it was asked to run, or the synthesis turn
OwnTurn(f, turn) ==
    \/ turn = [role |-> "user", content |-> Str(QueryText(f.id))]
    \/ turn = [role |-> "user", content |-> Str(SynthesisPrompt)]
    \/ /\ turn.role = "assistant"
       /\ \E r \in ResponsesTo(f) : turn.content = List(r.content)
    \/ /\ turn.role = "user"
       /\ IsList(turn.content)
       /\ \A x \in 1..Len(turn.content.list) :
            turn.content.list[x].tool_use_id \in RequestIdsOf(f)

\* a turn sequence of the query of a frame: it starts with its query turn,
\* which occurs once, and holds nothing of another query
OwnSequence(f, msgs) ==
    /\ msgs # <<>>
    /\ msgs[1] = [role |-> "user", content |-> Str(QueryText(f.id))]
    /\ \A x \in 1..Len(msgs) : OwnTurn(f, msgs[x])
    /\ \A x \in 2..Len(msgs) : msgs[x] # msgs[1]

\* the queries of all threads are under way or over, each past a tool round
Interleaved ==
    \A c \in Callers :
        /\ sh.frames[c].round_count > 0
        /\ Len(sh.frames[c].calls) > 1

\* C27: on one shared engine, whatever the interleaving of the queries and
\* whether or not earlier ones failed or were abandoned, every turn
\* sequence a query sends or holds starts with its own query turn and holds
\* only its own requests and results, every query counts its rounds from 0,
\* and the engine's configuration stays what it was at construction.
C27_QueryIsolation ==
    /\ \A c \in Called :
        LET f == sh.frames[c] IN
        /\ \A i \in 1..Len(f.calls) :
            /\ OwnSequence(f, f.calls[i].params.messages)
            /\ f.calls[i].params.system = SystemContent(HistoryOf(f.id))
        /\ OwnSequence(f, f.api_params.messages)
        /\ f.messages # <<>> => OwnSequence(f, f.messages)
        /\ f.round_count = Len(f.batches)
        /\ \A b \in 1..Len(f.batches) : f.batches[b] = b - 1
    /\ \A c, d \in Called : c # d => sh.frames[c].id # sh.frames[d].id
    /\ engine = [base_params |-> BaseParams, max_tool_rounds |-> MaxRounds]

\* two queries interleaved on the engine, both with a tool round behind
\* them: one was abandoned in its second round, the latest one has sent
\* the results of its own tool and holds the response to that
C27_Witness ==
    /\ Interleaved
    /\ \E c \in Callers :
        /\ sh.frames[c].pc = "abandoned"
        /\ sh.frames[c].round_count = 2
    /\ \E c \in Callers :
        LET f == sh.frames[c] IN
        /\ f.pc = "loop"
        /\ f.id = sh.started
        /\ f.batches = <<0>>
        /\ f.calls[2].kind = "round"
        /\ Len(f.calls[2].params.messages) = 3
        /\ f.calls[2].params.messages[3].content.list # <<>>

\* ------------------------------------------------ claims, the engine (3)
\* the synthesis turn of the finalization call
SynthesisTurn == [role |-> "user", content |-> Str(SynthesisPrompt)]

\* the turn sequence of the finalization call, once it is prepared
Finalizing == pc = "final_call" \/ CallsOfKind("final") # {}

\* the finalization's turn sequence is the one of the last tool-enabled
\* call with the synthesis turn after it, the response that triggered it is
\* not in it and none of its tool requests was executed
FinalizationSequence ==
    Finalizing =>
        LET last == Latest(ToolEnabledCalls)
            n == Len(final_messages)
        IN  /\ ~replies[last].raised
            /\ final_messages = Append(calls[last].params.messages, SynthesisTurn)
            /\ messages = calls[last].params.messages
            /\ \A i \in CallsOfKind("final") : calls[i].params.messages = final_messages
            /\ \A j \in 1..Len(execs) :
                /\ execs[j].calls < last
                /\ execs[j].id \notin IdsOf(replies[last].response.content)
            /\ n >= 2
            /\ final_messages[n].role = "user"
            /\ final_messages[n - 1].role = "user"

\* C31 as stated: the turn before the synthesis turn is the last tool-result
\* turn. (Violated with max_tool_rounds = 0, where it is the query turn.)
C31_Original ==
    /\ FinalizationSequence
    /\ Finalizing => IsResultTurn(final_messages[Len(final_messages) - 1])

\* C31: the tool requests of the response that triggers the finalization are
\* never executed and that response is never appended: the finalization
\* call's turn sequence is the one of the last tool-enabled call followed by
\* the synthesis turn, so it ends with two user turns, the second-to-last
\* being the last tool-result turn when a batch was run (max_tool_rounds >= 1)
\* and the query turn when none was (max_tool_rounds = 0).
C31_FinalizationSequence ==
    /\ FinalizationSequence
    /\ Finalizing =>
        LET n == Len(final_messages) IN
        IF max_tool_rounds >= 1
        THEN /\ IsResultTurn(final_messages[n - 1])
             /\ round_count = max_tool_rounds
             /\ n = 2 * round_count + 2
        ELSE /\ n = 2
             /\ final_messages[1] = [role |-> "user", content |-> Str(query)]

\* a finalization after two batches, triggered by a response that asks for
\* a tool: the call is made with the six turns, the request was never run
C31_Witness ==
    /\ CallsOfKind("final") = {4}
    /\ max_tool_rounds = 2
    /\ ToolUses(replies[3].response.content) # <<>>
    /\ Len(execs) = 2
    /\ Len(calls[4].params.messages) = 6
    /\ IsResultTurn(calls[4].params.messages[5])
    /\ calls[4].params.messages[6] = SynthesisTurn

\* the calls that carry no tool definitions
CallsWithoutTools == {i \in 1..Len(calls) : "tools" \notin DOMAIN calls[i].params}

\* a query on an engine of max_tool_rounds = 0, with a registry, whose
\* initial response has the stop reason tool_use
ZeroRoundsToolsRequested ==
    /\ max_tool_rounds = 0
    /\ Truthy(tool_manager)
    /\ InitialAnswered
    /\ InitialResponse.stop_reason = "tool_use"

\* C32: with max_tool_rounds = 0 and a registry supplied no tool is ever
\* executed and no batch is started; when the initial response has the stop
\* reason tool_use the query goes straight to the finalization: its second
\* and last model call is the finalization call, without tool definitions
\* (the only such call when tools were offered), on the query turn followed
\* by the synthesis turn, and the query returns the text extracted from
\* that call's response, or the finalization error string when it failed.
C32_ZeroRounds ==
    /\ (max_tool_rounds = 0 /\ Truthy(tool_manager)) =>
        /\ execs = <<>>
        /\ batches = <<>>
        /\ round_count = 0
        /\ pc \notin {"exec", "next_call"}
    /\ ZeroRoundsToolsRequested =>
        /\ pc \in {"loop", "final_call", "returned"}
        /\ Len(calls) <= 2
        /\ messages = <<[role |-> "user", content |-> Str(query)]>>
        /\ pc = "returned" =>
            /\ Len(calls) = 2
            /\ calls[2].kind = "final"
            /\ "tools" \notin DOMAIN calls[2].params
            /\ "tool_choice" \notin DOMAIN calls[2].params
            /\ Truthy(tools) => CallsWithoutTools = {2}
            /\ calls[2].params.messages =
                    <<[role |-> "user", content |-> Str(query)], SynthesisTurn>>
            /\ IF replies[2].raised
               THEN result = "Error in final response generation: " \o replies[2].detail
               ELSE /\ result = ExtractResponseText(replies[2].response)
                    /\ HasText(replies[2].response) =>
                            result = FirstText(replies[2].response)

\* the initial response asks for a tool, the finalization call answers
\* with a text, which is returned; nothing was executed
C32_Witness ==
    /\ ZeroRoundsToolsRequested
    /\ Truthy(tools)
    /\ ToolUses(InitialResponse.content) # <<>>
    /\ pc = "returned"
    /\ Len(calls) = 2
    /\ ~replies[2].raised
    /\ HasText(replies[2].response)
    /\ result = FirstText(replies[2].response)
    /\ execs = <<>>

\* the query has returned the fixed failure string of an empty batch
FailedBatchOutcome == pc = "returned" /\ result = ToolExecutionFailed

\* response i has the stop reason tool_use and no tool_use item
EmptyRequest(i) ==
    /\ ~replies[i].raised
    /\ replies[i].response.stop_reason = "tool_use"
    /\ ToolUses(replies[i].response.content) = <<>>

\* one result per tool_use item: of the items passed so far while the batch
\* runs, and of the whole preceding assistant turn for every result turn
OneResultPerRequest ==
    /\ pc = "exec" =>
        LET passed == ToolUses(SubSeq(current_response.content, 1, idx - 1))
        IN  /\ Len(tool_results) = Len(passed)
            /\ \A j \in 1..Len(passed) : tool_results[j].tool_use_id = passed[j].id
    /\ \A x \in 2..Len(messages) :
        IsResultTurn(messages[x]) =>
            /\ messages[x - 1].role = "assistant"
            /\ Len(messages[x].content.list) = Len(ToolUses(messages[x - 1].content.list))
            /\ Len(messages[x].content.list) >= 1
    /\ \A r \in 1..Len(batches) :
        BatchOver(r) => Len(ExecsOfRound(r)) = Len(ToolUses(replies[r].response.content))

\* C33 as stated, for queries with tools offered, a registry supplied and
\* max_tool_rounds >= 1: the fixed outcome is reached if and only if a
\* response to a tool-enabled call has the stop reason tool_use and no
\* tool_use item. (Violated when that response arrives with the round
\* counter at the maximum: the finalization is run instead.)
C33_Original ==
    /\ OneResultPerRequest
    /\ (Done /\ Truthy(tools) /\ Truthy(tool_manager) /\ max_tool_rounds >= 1) =>
        (FailedBatchOutcome <=> \E i \in ToolEnabledCalls : EmptyRequest(i))

\* C33: a batch produces exactly one result per tool_use item of its
\* response, whether the tools return or raise; the fixed outcome "Tool
\* execution failed. Please try again." is reached if and only if a batch
\* is started on a response without tool_use items, that is a response
\* with the stop reason tool_use and no such item, received with a registry
\* supplied and the round counter below max_tool_rounds; it is never
\* reached for a batch with at least one request.
C33_EmptyBatchOnly ==
    /\ OneResultPerRequest
    /\ Done =>
        (FailedBatchOutcome <=>
            /\ Truthy(tool_manager)
            /\ \E i \in ToolEnabledCalls : EmptyRequest(i) /\ i <= max_tool_rounds)
    /\ FailedBatchOutcome =>
        /\ round_count = Len(calls)
        /\ EmptyRequest(Len(calls))
        /\ \A j \in 1..Len(execs) : execs[j].round < round_count

\* a first batch of two requests, one tool raising and one returning, gave
\* two results; the second response asks for tools without naming one and
\* the query returns the fixed string
C33_Witness ==
    /\ FailedBatchOutcome
    /\ round_count = 2
    /\ Len(execs) = 2
    /\ execs[1].raised
    /\ ~execs[2].raised
    /\ Len(messages[3].content.list) = 2
    /\ EmptyRequest(2)

====
